---- MODULE Spec2Model ----
(***************************************************************************)
(* The singleton connection managers of the dashboard client:              *)
(* SSESingleton (src/src/hooks/useSSESingleton.ts) and WebSocketSingleton  *)
(* (src/src/hooks/useWebSocketSingleton.ts).  One behaviour follows one    *)
(* manager; `kind` says which class it is.  Every callback of the code     *)
(* (an API call, a transport event handler, a timer callback) is one       *)
(* atomic action, as the event loop runs it.                               *)
(***************************************************************************)
EXTENDS Integers, Sequences, FiniteSets, TLC

\* ---------------------------------------------------------------- bounds
MaxTransports == 2
MaxTimers == 2
NumConsumers == 2
MaxEnvelopes == 2
MaxSteps == 2
MaxPageTimers == 2
MaxRateSteps == 4

\* ------------------------------------------------------ program constants
maxReconnectAttempts == 5
baseDelay == 2000

Null == 0
TransportIds == 1..MaxTransports
TimerIds == 1..MaxTimers
Consumers == 1..NumConsumers
ReadyStates == {"NONE", "CONNECTING", "OPEN", "CLOSING", "CLOSED"}
NormalClosure == 1000
GoingAway == 1001
AbnormalClosure == 1006
CloseCodes == {NormalClosure, GoingAway, AbnormalClosure}
\* The envelopes a transport can carry, and the payload that is not JSON.
Envelopes == 1..MaxEnvelopes
Malformed == 0
Payloads == {Malformed} \cup Envelopes

VARIABLES
    kind,                  \* "SSE" or "WS": the manager class of this behaviour
    eventSource,           \* the transport field (eventSource / ws): Null or an id
    isConnecting,
    reconnectTimeout,      \* the timer-handle field: Null or a handle
    reconnectAttempts,
    connectionSubscribers,
    messageSubscribers,
    errorSubscribers,
    readyState,            \* readyState of every transport object ever constructed
    handlers,              \* TRUE while the object's onopen/onerror/onclose are set
    timers,                \* handle -> delay of the pending setTimeout, 0 if none
    connOut,               \* consumer -> connection notifications of the last step
    errOut,                \* consumer -> error notifications of the last step
    lastOp,                \* the callback the last step ran
    closeStreak,           \* unexpected closes since the last open or disconnect
    streakAtOpen,          \* closeStreak just before the last handled open
    userDisconnected,      \* disconnect() ran and no caller has called connect() since
    msgOut,                \* consumer -> envelopes its message callback got in the last step
    caught,                \* consumers whose callback threw into a catch in the last step
    escaped,               \* an exception left the manager's method in the last step
    state,                 \* useDashboardState: the DashboardState
    messageCount,
    messageTimestamps,
    now,                   \* the clock: what Date.now() / new Date() returns
    storeOp,               \* the store operation or dispatch the last step ran,
                           \* and the sequence_id stored before it
    steps,                 \* steps taken by the store specification
    page,                  \* TradingDashboard and useSSE: their useState values,
                           \* the await handlePlayToggle is at, the pending timeouts
    pageOp,                \* the page callback the last step ran
    restartRequested,      \* Start was clicked since the last staleness trip
    arrivals               \* the times of all orderbook updates so far (kept by
                           \* the specification of the rate estimator)

mgrVars == <<eventSource, isConnecting, reconnectTimeout, reconnectAttempts,
             connectionSubscribers, messageSubscribers, errorSubscribers,
             readyState, handlers, timers>>
vars == <<kind, eventSource, isConnecting, reconnectTimeout, reconnectAttempts,
          connectionSubscribers, messageSubscribers, errorSubscribers,
          readyState, handlers, timers, connOut, errOut, lastOp,
          closeStreak, streakAtOpen, userDisconnected,
          msgOut, caught, escaped,
          state, messageCount, messageTimestamps, now, storeOp, steps,
          page, pageOp, restartRequested, arrivals>>

pageVars == <<page, pageOp, restartRequested>>

storeVars == <<state, messageCount, messageTimestamps, now>>

NoOut == [c \in Consumers |-> <<>>]

\* The manager and its environment as one record, the argument of the
\* operators below.
Cur ==
    [kind |-> kind, eventSource |-> eventSource, isConnecting |-> isConnecting,
     reconnectTimeout |-> reconnectTimeout, reconnectAttempts |-> reconnectAttempts,
     connectionSubscribers |-> connectionSubscribers,
     messageSubscribers |-> messageSubscribers,
     errorSubscribers |-> errorSubscribers,
     readyState |-> readyState, handlers |-> handlers, timers |-> timers,
     connOut |-> NoOut, errOut |-> NoOut, msgOut |-> NoOut,
     throwing |-> {}, caught |-> {}, escaped |-> FALSE]

\* The same, in a step in which the callbacks of the consumers in T throw.
CurThrowing(T) == [Cur EXCEPT !.throwing = T]

CommitManager(s) ==
    /\ eventSource' = s.eventSource
    /\ isConnecting' = s.isConnecting
    /\ reconnectTimeout' = s.reconnectTimeout
    /\ reconnectAttempts' = s.reconnectAttempts
    /\ connectionSubscribers' = s.connectionSubscribers
    /\ messageSubscribers' = s.messageSubscribers
    /\ errorSubscribers' = s.errorSubscribers
    /\ readyState' = s.readyState
    /\ handlers' = s.handlers
    /\ timers' = s.timers
    /\ connOut' = s.connOut
    /\ errOut' = s.errOut
    /\ msgOut' = s.msgOut
    /\ caught' = s.caught
    /\ escaped' = s.escaped
    /\ kind' = kind

\* A step of the manager alone: the store is left as it is.
Commit(s) ==
    CommitManager(s) /\ UNCHANGED <<storeVars, storeOp, steps, pageVars, arrivals>>

Min(S) == CHOOSE x \in S : \A y \in S : x <= y

RECURSIVE Pow2(_)
Pow2(n) == IF n = 0 THEN 1 ELSE 2 * Pow2(n - 1)

\* this.eventSource?.readyState === EventSource.OPEN
IsOpen(s) == s.eventSource # Null /\ s.readyState[s.eventSource] = "OPEN"

isConnected(s) == IsOpen(s)

\* Ids name the transport objects.  An object that is closed and that the
\* manager no longer references is garbage, and its id is free again.
FreeIds(s) ==
    {i \in TransportIds : s.readyState[i] \in {"NONE", "CLOSED"} /\ i # s.eventSource}

\* The id the next `new EventSource(...)` / `new WebSocket(...)` gets.
NextId(s) == IF FreeIds(s) = {} THEN MaxTransports + 1 ELSE Min(FreeIds(s))

\* The handle the next setTimeout returns: one no pending timer has.
NextTimer(s) ==
    IF \A h \in TimerIds : s.timers[h] > 0 THEN MaxTimers + 1
    ELSE Min({h \in TimerIds : s.timers[h] = 0})

\* Each notify method calls every callback of its set inside a try/catch: a
\* callback that throws is caught (and logged) and the iteration goes on.
notifyConnectionChange(s, connected) ==
    [s EXCEPT !.connOut = [c \in Consumers |->
                  IF c \in s.connectionSubscribers
                  THEN Append(s.connOut[c], connected)
                  ELSE s.connOut[c]],
              !.caught = s.caught \cup (s.connectionSubscribers \cap s.throwing)]

\* notifyMessage() without the try/catch: the first callback that throws
\* (in iteration order, here the order of the ids) ends the iteration.
notifyMessage_NoCatch(s, message) ==
    LET T == s.messageSubscribers \cap s.throwing
        reached == IF T = {} THEN s.messageSubscribers
                   ELSE {c \in s.messageSubscribers : c <= Min(T)}
    IN  [s EXCEPT !.msgOut = [c \in Consumers |->
                      IF c \in reached THEN Append(s.msgOut[c], message)
                      ELSE s.msgOut[c]],
                  !.escaped = s.escaped \/ T # {}]

notifyMessage(s, message) ==
    [s EXCEPT !.msgOut = [c \in Consumers |->
                  IF c \in s.messageSubscribers
                  THEN Append(s.msgOut[c], message)
                  ELSE s.msgOut[c]],
              !.caught = s.caught \cup (s.messageSubscribers \cap s.throwing)]

notifyError(s, error) ==
    [s EXCEPT !.errOut = [c \in Consumers |->
                  IF c \in s.errorSubscribers
                  THEN Append(s.errOut[c], error)
                  ELSE s.errOut[c]],
              !.caught = s.caught \cup (s.errorSubscribers \cap s.throwing)]

\* What close() in cleanup() leaves of the transport's readyState:
\* EventSource.close() always closes; the WebSocket is closed only when OPEN.
CleanupClose(k, rs) ==
    IF k = "SSE" THEN "CLOSED"
    ELSE IF rs = "OPEN" THEN "CLOSING" ELSE rs

\* cleanup() that leaves the reconnect timer pending.
cleanup_KeepsTimer(s) ==
    LET es == s.eventSource
    IN  IF es # Null
        THEN [s EXCEPT !.handlers[es] = FALSE,
                       !.readyState[es] = CleanupClose(s.kind, s.readyState[es]),
                       !.eventSource = Null]
        ELSE s

cleanup(s) ==
    LET s1 == IF s.reconnectTimeout # Null
              THEN [s EXCEPT !.timers[s.reconnectTimeout] = 0,
                             !.reconnectTimeout = Null]
              ELSE s
        es == s1.eventSource
    IN  IF es # Null
        THEN [s1 EXCEPT !.handlers[es] = FALSE,
                        !.readyState[es] = CleanupClose(s.kind, s1.readyState[es]),
                        !.eventSource = Null]
        ELSE s1

FailedToCreate(k) ==
    IF k = "SSE" THEN "Failed to create SSE connection"
    ELSE "Failed to create WebSocket connection"

MaxAttemptsFailed(k) ==
    IF k = "SSE" THEN "SSE connection failed - max attempts reached"
    ELSE "Connection failed - max attempts reached"

\* new EventSource(url) / new WebSocket(url) with its handlers assigned.  An
\* id beyond the bound only marks the step, which Fits then cuts off.
construct(s, id) ==
    IF id \in TransportIds
    THEN [s EXCEPT !.eventSource = id,
                   !.readyState[id] = "CONNECTING",
                   !.handlers[id] = TRUE]
    ELSE [s EXCEPT !.eventSource = id]

\* connect() without the guard against an attempt in progress.
connect_NoBusyGuard(s, throws) ==
    IF IsOpen(s) THEN s
    ELSE IF s.reconnectAttempts >= maxReconnectAttempts
         THEN notifyError(s, "Max reconnection attempts reached")
    ELSE LET s1 == cleanup([s EXCEPT !.isConnecting = TRUE])
             id == NextId(s1)
         IN  IF throws
             THEN notifyError([s1 EXCEPT !.isConnecting = FALSE], FailedToCreate(s.kind))
             ELSE construct(s1, id)

\* connect() without the check of the attempt ceiling.
connect_NoCeilingCheck(s, throws) ==
    IF s.isConnecting THEN s
    ELSE IF IsOpen(s) THEN s
    ELSE LET s1 == cleanup([s EXCEPT !.isConnecting = TRUE])
             id == NextId(s1)
         IN  IF throws
             THEN notifyError([s1 EXCEPT !.isConnecting = FALSE], FailedToCreate(s.kind))
             ELSE construct(s1, id)

\* connect(); `throws` says whether the transport constructor throws.
connect(s, throws) ==
    IF s.isConnecting THEN s
    ELSE IF IsOpen(s) THEN s
    ELSE IF s.reconnectAttempts >= maxReconnectAttempts
         THEN notifyError(s, "Max reconnection attempts reached")
    ELSE LET s1 == cleanup([s EXCEPT !.isConnecting = TRUE])
             id == NextId(s1)
         IN  IF throws
             THEN notifyError([s1 EXCEPT !.isConnecting = FALSE], FailedToCreate(s.kind))
             ELSE construct(s1, id)

\* A backoff that grows linearly instead of doubling.
BackoffDelay_Linear(attempts) == baseDelay * (attempts + 1)

\* const delay = this.baseDelay * Math.pow(2, this.reconnectAttempts)
BackoffDelay(attempts) == baseDelay * Pow2(attempts)

\* setTimeout(callback, delay); a handle beyond the bound only marks the
\* step, which Fits then cuts off.
setTimeout(s, delay) ==
    LET h == NextTimer(s) IN
    IF h \in TimerIds
    THEN [s EXCEPT !.reconnectTimeout = h, !.timers[h] = delay]
    ELSE [s EXCEPT !.reconnectTimeout = h]

\* The reconnect branch shared by the SSE onerror and the WS onclose handlers.
scheduleReconnect(s) ==
    setTimeout([s EXCEPT !.reconnectAttempts = s.reconnectAttempts + 1],
               BackoffDelay(s.reconnectAttempts))

\* onopen that leaves reconnectAttempts as it is.
onopen_KeepsAttempts(s) ==
    notifyConnectionChange([s EXCEPT !.isConnecting = FALSE], TRUE)

onopen(s) ==
    notifyConnectionChange(
        [s EXCEPT !.isConnecting = FALSE, !.reconnectAttempts = 0], TRUE)

\* EventSource.onerror
sseOnError(s) ==
    LET s1 == notifyConnectionChange([s EXCEPT !.isConnecting = FALSE], FALSE)
        s2 == IF s1.eventSource # Null
              THEN [s1 EXCEPT !.readyState[s1.eventSource] = "CLOSED",
                              !.eventSource = Null]
              ELSE s1
    IN  IF s2.reconnectAttempts < maxReconnectAttempts
        THEN scheduleReconnect(s2)
        ELSE notifyError(s2, MaxAttemptsFailed(s.kind))

\* WebSocket.onclose
wsOnClose(s, code) ==
    LET s1 == notifyConnectionChange(
                  [s EXCEPT !.isConnecting = FALSE, !.eventSource = Null], FALSE)
    IN  IF code # NormalClosure /\ code # GoingAway
           /\ s1.reconnectAttempts < maxReconnectAttempts
        THEN scheduleReconnect(s1)
        ELSE IF code = NormalClosure \/ code = GoingAway
        THEN [s1 EXCEPT !.reconnectAttempts = 0]
        ELSE notifyError(s1, MaxAttemptsFailed(s.kind))

\* WebSocket.onerror
wsOnError(s) ==
    notifyError([s EXCEPT !.isConnecting = FALSE], "WebSocket connection error")

\* disconnect() that tells the subscribers nothing.
disconnect_NoNotify(s) == [cleanup(s) EXCEPT !.reconnectAttempts = 0]

disconnect(s) ==
    notifyConnectionChange([cleanup(s) EXCEPT !.reconnectAttempts = 0], FALSE)

\* subscribe() that replays "connected" whatever the transport's state.
subscribe_AlwaysReplays(s, c) ==
    LET s1 == [s EXCEPT !.connectionSubscribers = s.connectionSubscribers \cup {c},
                        !.messageSubscribers = s.messageSubscribers \cup {c},
                        !.errorSubscribers = s.errorSubscribers \cup {c}]
    IN  [s1 EXCEPT !.connOut[c] = Append(s1.connOut[c], TRUE),
                   !.escaped = c \in s1.throwing]

\* subscribe(); the replay calls onConnectionChange(true) directly, outside
\* any try/catch, so an exception of the callback leaves subscribe().
subscribe(s, c) ==
    LET s1 == [s EXCEPT !.connectionSubscribers = s.connectionSubscribers \cup {c},
                        !.messageSubscribers = s.messageSubscribers \cup {c},
                        !.errorSubscribers = s.errorSubscribers \cup {c}]
    IN  IF IsOpen(s1)
        THEN [s1 EXCEPT !.connOut[c] = Append(s1.connOut[c], TRUE),
                        !.escaped = c \in s1.throwing]
        ELSE s1

\* An unsubscribe function that leaves the message callback registered.
unsubscribe_KeepsMessageCallback(s, c) ==
    [s EXCEPT !.connectionSubscribers = s.connectionSubscribers \ {c},
              !.errorSubscribers = s.errorSubscribers \ {c}]

unsubscribe(s, c) ==
    [s EXCEPT !.connectionSubscribers = s.connectionSubscribers \ {c},
              !.messageSubscribers = s.messageSubscribers \ {c},
              !.errorSubscribers = s.errorSubscribers \ {c}]

\* The mount effect of useSSE / useWebSocket; an exception that leaves
\* subscribe() ends the effect.
mount(s, c, throws) ==
    LET s1 == subscribe(s, c)
    IN  IF s1.escaped THEN s1
        ELSE IF ~isConnected(s1) THEN connect(s1, throws) ELSE s1

\* JSON.parse(event.data): the envelope, or an exception for a payload that
\* is not JSON.
JSONparse(payload) ==
    [throws |-> payload = Malformed, value |-> payload]

\* The transport's onmessage handler.
onmessage(s, payload) ==
    LET parsed == JSONparse(payload) IN
    IF parsed.throws THEN s
    ELSE notifyMessage(s, parsed.value)

\* Which way connect() goes from s: the early return it takes, "threw" when
\* the constructor throws, "created" when a transport is constructed.
ConnectBranch(s, throws) ==
    IF s.isConnecting THEN "connecting"
    ELSE IF IsOpen(s) THEN "open"
    ELSE IF s.reconnectAttempts >= maxReconnectAttempts THEN "ceiling"
    ELSE IF throws THEN "threw"
    ELSE "created"

\* ------------------------------------------------------------- the store
\* useDashboardState and the dispatch of useSSE.  A store is the record
\* [state, messageCount, messageTimestamps, now]; times are in ms, and
\* memory_usage_mb and processing_delay_ms are kept in tenths.

Undefined == -1

\* A log message or incident text: the template and its interpolated values.
Text(text, strs, nums) == [text |-> text, strs |-> strs, nums |-> nums]

\* ${data[k]} in a template string.
InterpNumber(data, k) == IF k \in DOMAIN data THEN data[k] ELSE Undefined
InterpString(data, k) == IF k \in DOMAIN data THEN data[k] ELSE "undefined"

\* (data[k] as number) || 0, (data[k] as string) || d, (data[k] as boolean)
\* || false, (data[k] as [string, string][]) || []
OrNumber(data, k) == IF k \in DOMAIN data /\ data[k] # 0 THEN data[k] ELSE 0
OrString(data, k, d) == IF k \in DOMAIN data /\ data[k] # "" THEN data[k] ELSE d
OrFalse(data, k) == k \in DOMAIN data /\ data[k]
OrEmptyList(data, k) == IF k \in DOMAIN data THEN data[k] ELSE <<>>
\* (data.timestamp as string) || new Date().toISOString()
OrNow(data, k, t) == IF k \in DOMAIN data /\ data[k] # Null THEN data[k] ELSE t

\* { ...prev, ...partial }
Spread(prev, partial) ==
    [k \in DOMAIN prev \cup DOMAIN partial |->
        IF k \in DOMAIN partial THEN partial[k] ELSE prev[k]]

\* Array.prototype.slice(start) for a start below zero.
slice(seq, start) ==
    LET len == Len(seq)
        from == IF len + start > 0 THEN len + start ELSE 0
    IN  SubSeq(seq, from + 1, len)

\* The start index of the slices that cap the buffers: slice(-999).
sliceStart == -999

generateSampleMetrics ==
    [memory_usage_mb |-> 255, queue_size |-> 150, processing_delay_ms |-> 152,
     server_status |-> "healthy", active_clients |-> 1,
     current_scenario |-> "stable-mode", uptime_seconds |-> 3600]

initialState ==
    [orderbook_data |->
        [bids |-> <<>>, asks |-> <<>>, mid_price |-> 0, spread |-> 0,
         sequence_id |-> 0, timestamp |-> Null, data_age_ms |-> 0,
         is_stale |-> FALSE, processing_delay_ms |-> 0],
     metrics |-> generateSampleMetrics,
     incidents |-> <<>>,
     logs |-> <<>>,
     performance_history |->
        [timestamps |-> <<>>, memory |-> <<>>, queue |-> <<>>,
         processing_delay |-> <<>>, message_rate |-> <<>>]]

\* addLog() that appends without dropping the oldest entries.
addLog_Unbounded(st, level, message) ==
    [st EXCEPT !.state.logs =
        Append(@, [timestamp |-> st.now, level |-> level, message |-> message])]

\* addLog() that keeps no entry of level INFO.
addLog_DropsInfo(st, level, message) ==
    IF level = "INFO" THEN st
    ELSE [st EXCEPT !.state.logs =
            Append(slice(@, sliceStart),
                   [timestamp |-> st.now, level |-> level, message |-> message])]

addLog(st, level, message) ==
    [st EXCEPT !.state.logs =
        Append(slice(@, sliceStart),
               [timestamp |-> st.now, level |-> level, message |-> message])]

\* addIncident() that drops an incident of the same type as the last one.
addIncident_Deduplicates(st, incident) ==
    LET n == Len(st.state.incidents) IN
    IF n > 0 /\ st.state.incidents[n].type = incident.type THEN st
    ELSE [st EXCEPT !.state.incidents = Append(@, incident)]

\* addIncident() that puts the new incident first.
addIncident_NewestFirst(st, incident) ==
    [st EXCEPT !.state.incidents = <<incident>> \o @]

addIncident(st, incident) ==
    [st EXCEPT !.state.incidents = Append(@, incident)]

\* The window of updateOrderbook's arrival timestamps, in ms.
timestampWindow == 10000

\* updateOrderbook() that keeps the stored book when the new one is empty.
updateOrderbook_KeepsBook(st, orderbookData) ==
    LET kept == IF "bids" \in DOMAIN orderbookData /\ orderbookData.bids = <<>>
                THEN {"bids", "asks"} ELSE {}
    IN
    [st EXCEPT !.messageCount = @ + 1,
               !.messageTimestamps =
                   Append(SelectSeq(@, LAMBDA ts : st.now - ts < timestampWindow),
                          st.now),
               !.state.orderbook_data =
                   Spread(@, [k \in DOMAIN orderbookData \ kept |-> orderbookData[k]])]

\* updateOrderbook() that rejects a snapshot whose sequence_id is lower than
\* the stored one.
updateOrderbook_RejectsOlder(st, orderbookData) ==
    LET older == /\ "sequence_id" \in DOMAIN orderbookData
                 /\ orderbookData.sequence_id < st.state.orderbook_data.sequence_id
    IN
    [st EXCEPT !.messageCount = @ + 1,
               !.messageTimestamps =
                   Append(SelectSeq(@, LAMBDA ts : st.now - ts < timestampWindow),
                          st.now),
               !.state.orderbook_data =
                   IF older THEN @ ELSE Spread(@, orderbookData)]

updateOrderbook(st, orderbookData) ==
    [st EXCEPT !.messageCount = @ + 1,
               !.messageTimestamps =
                   Append(SelectSeq(@, LAMBDA ts : st.now - ts < timestampWindow),
                          st.now),
               !.state.orderbook_data = Spread(@, orderbookData)]

\* updateMetrics() that replaces the metrics by its argument.
updateMetrics_Replaces(st, metrics) ==
    [st EXCEPT !.state.metrics = metrics]

updateMetrics(st, metrics) ==
    [st EXCEPT !.state.metrics = Spread(@, metrics)]

\* updatePerformanceHistory() that files the queue size under
\* processing_delay and the delay under queue.
updatePerformanceHistory_SwapsQueueAndDelay(st, memory, queue, delay, messageRate) ==
    [st EXCEPT !.state.performance_history =
        [timestamps |-> Append(slice(@.timestamps, sliceStart), st.now),
         memory |-> Append(slice(@.memory, sliceStart), memory),
         queue |-> Append(slice(@.queue, sliceStart), delay),
         processing_delay |-> Append(slice(@.processing_delay, sliceStart), queue),
         message_rate |-> Append(slice(@.message_rate, sliceStart), messageRate)]]

\* updatePerformanceHistory() that never evicts from the memory series.
updatePerformanceHistory_KeepsOldMemory(st, memory, queue, delay, messageRate) ==
    [st EXCEPT !.state.performance_history =
        [timestamps |-> Append(slice(@.timestamps, sliceStart), st.now),
         memory |-> Append(@.memory, memory),
         queue |-> Append(slice(@.queue, sliceStart), queue),
         processing_delay |-> Append(slice(@.processing_delay, sliceStart), delay),
         message_rate |-> Append(slice(@.message_rate, sliceStart), messageRate)]]

\* messageRate is 0 when the caller leaves it out (messageRate || 0).
updatePerformanceHistory(st, memory, queue, delay, messageRate) ==
    [st EXCEPT !.state.performance_history =
        [timestamps |-> Append(slice(@.timestamps, sliceStart), st.now),
         memory |-> Append(slice(@.memory, sliceStart), memory),
         queue |-> Append(slice(@.queue, sliceStart), queue),
         processing_delay |-> Append(slice(@.processing_delay, sliceStart), delay),
         message_rate |-> Append(slice(@.message_rate, sliceStart), messageRate)]]

\* The window of getMessageRate, in ms and in seconds.
rateWindow == 5000
rateWindowSeconds == 5

\* getMessageRate() that counts every timestamp the store still holds.
getMessageRate_NoWindow(st) ==
    (Len(st.messageTimestamps) * 10) \div rateWindowSeconds

\* getMessageRate(): messages per second, here in tenths (the quotient by 5
\* has one decimal).
getMessageRate(st) ==
    (Len(SelectSeq(st.messageTimestamps, LAMBDA ts : st.now - ts < rateWindow)) * 10)
        \div rateWindowSeconds

\* The staleness threshold of the CRITICAL log entry in useSSE.
criticalLogThreshold == 1000

\* handleMessage of useSSE: the dispatch of one envelope on its type.
handleMessage(st, message) ==
    LET data == message.data IN
    CASE message.type = "connection" ->
            addLog(st, "INFO",
                   Text("Connected to server: ${message}",
                        <<InterpString(data, "message")>>, <<>>))
      [] message.type = "heartbeat" ->
            updatePerformanceHistory(
                updateMetrics(st,
                    [memory_usage_mb |-> OrNumber(data, "memory_usage_mb"),
                     queue_size |-> OrNumber(data, "queue_size"),
                     processing_delay_ms |-> OrNumber(data, "processing_delay_ms"),
                     server_status |-> OrString(data, "server_status", "unknown"),
                     active_clients |-> OrNumber(data, "active_clients"),
                     current_scenario |-> OrString(data, "current_scenario", "unknown"),
                     uptime_seconds |-> OrNumber(data, "uptime_seconds"),
                     total_events_received |-> OrNumber(data, "total_messages_received")]),
                OrNumber(data, "memory_usage_mb"),
                OrNumber(data, "queue_size"),
                OrNumber(data, "processing_delay_ms"), 0)
      [] message.type = "orderbook_update" ->
            LET dataAge == OrNumber(data, "data_age_ms")
                isStale == OrFalse(data, "is_stale")
                st1 == IF isStale /\ dataAge > criticalLogThreshold
                       THEN addLog(st, "CRITICAL",
                                   Text("Stale data detected: ${dataAge}ms old (seq: ${sequence_id})",
                                        <<>>, <<dataAge, InterpNumber(data, "sequence_id")>>))
                       ELSE IF isStale
                       THEN addLog(st, "WARNING",
                                   Text("Data freshness degraded: ${dataAge}ms lag",
                                        <<>>, <<dataAge>>))
                       ELSE st
            IN  updateOrderbook(st1,
                    [bids |-> OrEmptyList(data, "bids"),
                     asks |-> OrEmptyList(data, "asks"),
                     mid_price |-> OrNumber(data, "mid_price"),
                     spread |-> OrNumber(data, "spread"),
                     sequence_id |-> OrNumber(data, "sequence_id"),
                     timestamp |-> OrNow(data, "timestamp", st.now),
                     data_age_ms |-> dataAge,
                     is_stale |-> isStale,
                     processing_delay_ms |-> OrNumber(data, "processing_delay_ms")])
      [] message.type = "incident_alert" ->
            LET stale == "type" \in DOMAIN data /\ data.type = "stale_data"
                incidentDetails ==
                    IF stale
                    THEN Text("Data age: ${data_age_ms}ms, Processing delay: ${processing_delay_ms}ms, Queue: ${queue_size}",
                              <<>>,
                              <<InterpNumber(data, "data_age_ms"),
                                InterpNumber(data, "processing_delay_ms"),
                                InterpNumber(data, "queue_size")>>)
                    ELSE Text(OrString(data, "details", "No details provided"),
                              <<>>, <<>>)
                st1 == IF stale
                       THEN addLog(st, "CRITICAL",
                                   Text("STALE DATA ALERT: ${data_age_ms}ms lag on sequence ${sequence_id}",
                                        <<>>,
                                        <<InterpNumber(data, "data_age_ms"),
                                          InterpNumber(data, "sequence_id")>>))
                       ELSE addLog(st, "INCIDENT",
                                   Text("Incident: ${type} - ${incidentDetails}",
                                        <<InterpString(data, "type"), incidentDetails.text>>,
                                        <<>>))
            IN  addIncident(st1,
                    [timestamp |-> OrNow(data, "timestamp", st.now),
                     type |-> OrString(data, "type", "Unknown"),
                     details |-> incidentDetails,
                     scenario |-> OrString(data, "scenario", "unknown"),
                     uptime |-> IF OrNumber(data, "uptime") # 0
                                THEN OrNumber(data, "uptime")
                                ELSE OrNumber(data, "uptime_seconds")])
      [] message.type = "keepalive" -> st
      [] OTHER -> st

\* The staleness threshold of the dashboard's detector, in ms.
stalenessThreshold == 300

\* The envelopes the server sends, by the number of their payload.
WireEnvelopes ==
    << [type |-> "heartbeat", data |-> [memory_usage_mb |-> 420]],
       [type |-> "heartbeat",
        data |-> [memory_usage_mb |-> 300, queue_size |-> 7,
                  processing_delay_ms |-> 90, server_status |-> "degraded",
                  active_clients |-> 3, current_scenario |-> "burst-mode",
                  uptime_seconds |-> 10, total_messages_received |-> 99]],
       [type |-> "orderbook_update",
        data |-> [bids |-> << <<"100", "1">> >>, asks |-> << <<"102", "2">> >>,
                  mid_price |-> 101, spread |-> 2, sequence_id |-> 5,
                  timestamp |-> 7, data_age_ms |-> 10, is_stale |-> FALSE,
                  processing_delay_ms |-> 3]],
       [type |-> "orderbook_update",
        data |-> [bids |-> << <<"99", "4">> >>, asks |-> << <<"103", "1">> >>,
                  mid_price |-> 100, spread |-> 4, sequence_id |-> 4,
                  timestamp |-> 8, data_age_ms |-> 1200, is_stale |-> TRUE,
                  processing_delay_ms |-> 700]],
       [type |-> "orderbook_update",
        data |-> [sequence_id |-> 6, data_age_ms |-> stalenessThreshold,
                  is_stale |-> TRUE]],
       [type |-> "incident_alert",
        data |-> [type |-> "stale_data", data_age_ms |-> 1200,
                  processing_delay_ms |-> 700, queue_size |-> 40,
                  sequence_id |-> 4, scenario |-> "burst-mode", uptime |-> 12]],
       [type |-> "incident_alert",
        data |-> [type |-> "memory_pressure", details |-> "heap above limit",
                  uptime_seconds |-> 15]],
       [type |-> "connection", data |-> [message |-> "welcome"]],
       [type |-> "keepalive", data |-> <<>>],
       [type |-> "mystery", data |-> <<>>],
       [type |-> "orderbook_update",
        data |-> [sequence_id |-> 8, data_age_ms |-> stalenessThreshold + 100,
                  is_stale |-> FALSE]] >>

StorePayloads == {Malformed} \cup (1..Len(WireEnvelopes))

\* The partial snapshots callers pass to updateMetrics and updateOrderbook.
MetricsPartials ==
    << [memory_usage_mb |-> 420],
       [queue_size |-> 7, server_status |-> "degraded"],
       [memory_usage_mb |-> 300, queue_size |-> 9, processing_delay_ms |-> 90,
        server_status |-> "degraded", active_clients |-> 3,
        current_scenario |-> "burst-mode", uptime_seconds |-> 10] >>

OrderbookPartials ==
    << [sequence_id |-> 9],
       [is_stale |-> TRUE, data_age_ms |-> 1200],
       [bids |-> << <<"100", "1">> >>, asks |-> << <<"102", "2">> >>,
        mid_price |-> 101, spread |-> 2, sequence_id |-> 5, timestamp |-> 7,
        data_age_ms |-> 10, is_stale |-> FALSE, processing_delay_ms |-> 3] >>

\* The store as one record, the argument of the operators above.
CurStore ==
    [state |-> state, messageCount |-> messageCount,
     messageTimestamps |-> messageTimestamps, now |-> now]

CommitStore(st) ==
    /\ state' = st.state
    /\ messageCount' = st.messageCount
    /\ messageTimestamps' = st.messageTimestamps
    /\ now' = now

\* ------------------------------------------------------------- the page
\* TradingDashboard (with useSSE) before anything happened.  The staleness
\* effect has run once, on mount, with the initial values.
NoError == "null"

initialPage ==
    [isConnected |-> FALSE,
     error |-> NoError,
     isDisconnectedDueToStaleness |-> FALSE,
     stalenessDisconnectInfo |-> Null,
     isResetting |-> FALSE,
     isDataProcessing |-> FALSE,
     isPlayButtonLoading |-> FALSE,
     effectDeps |-> <<FALSE, 0, FALSE, FALSE>>,
     toggle |-> "idle",
     timeouts |-> <<>>]

Init ==
    /\ kind \in {"SSE", "WS"}
    /\ eventSource = Null
    /\ isConnecting = FALSE
    /\ reconnectTimeout = Null
    /\ reconnectAttempts = 0
    /\ connectionSubscribers = {}
    /\ messageSubscribers = {}
    /\ errorSubscribers = {}
    /\ readyState = [i \in TransportIds |-> "NONE"]
    /\ handlers = [i \in TransportIds |-> FALSE]
    /\ timers = [h \in TimerIds |-> 0]
    /\ connOut = NoOut
    /\ errOut = NoOut
    /\ lastOp = [op |-> "init", arg |-> 0, pre |-> "", err |-> FALSE]
    /\ closeStreak = 0
    /\ streakAtOpen = 0
    /\ userDisconnected = FALSE
    /\ msgOut = NoOut
    /\ caught = {}
    /\ escaped = FALSE
    /\ state = initialState
    /\ messageCount = 0
    /\ messageTimestamps = <<>>
    /\ now = 1
    /\ storeOp = [op |-> "init", arg |-> 0, pre |-> 0]
    /\ steps = 0
    /\ page = initialPage
    /\ pageOp = [op |-> "init", arg |-> 0]
    /\ restartRequested = FALSE
    /\ arrivals = <<>>

\* A step may construct a transport or set a timer only while a free id or
\* handle is left.
Fits(s) == s.eventSource <= MaxTransports /\ s.reconnectTimeout <= MaxTimers

\* The observation variables: the callback that ran (op), the close code of an
\* onclose (arg), what the callback found (pre: the branch connect() took, the
\* readyState a transport event found, err: an error event came with the
\* close), and the counters kept for the properties.
HistErr(op, arg, pre, err, streak, atOpen, disc) ==
    /\ lastOp' = [op |-> op, arg |-> arg, pre |-> pre, err |-> err]
    /\ closeStreak' = streak
    /\ streakAtOpen' = atOpen
    /\ userDisconnected' = disc

Hist(op, arg, pre, streak, atOpen, disc) ==
    HistErr(op, arg, pre, FALSE, streak, atOpen, disc)

\* A step's throwing set T names callbacks the step calls.  connect() calls
\* callbacks (those of notifyError) only on the two branches that report an
\* error.
ConnectNotifies(s, throws) == ConnectBranch(s, throws) \in {"ceiling", "threw"}

\* An explicit connect() call of a caller.
ConnectThrowing(T) ==
    \E throws \in BOOLEAN :
        LET r == connect(CurThrowing(T), throws) IN
        /\ T # {} => ConnectNotifies(Cur, throws)
        /\ Fits(r)
        /\ Commit(r)
        /\ Hist("connect", 0, ConnectBranch(CurThrowing(T), throws),
                closeStreak, streakAtOpen, FALSE)

Connect == ConnectThrowing({})

DisconnectThrowing(T) ==
    /\ Commit(disconnect(CurThrowing(T)))
    /\ Hist("disconnect", 0, "", 0, streakAtOpen, TRUE)

Disconnect == DisconnectThrowing({})

\* The consumers that have callbacks registered.
Subscribed == connectionSubscribers \cup messageSubscribers \cup errorSubscribers

SubscribeThrowing(T) ==
    \E c \in Consumers :
        /\ T \subseteq (IF IsOpen(Cur) THEN {c} ELSE {})
        /\ c \notin connectionSubscribers
        /\ Commit(subscribe(CurThrowing(T), c))
        /\ Hist("subscribe", 0, "", closeStreak, streakAtOpen, userDisconnected)

Subscribe == SubscribeThrowing({})

Unsubscribe ==
    \E c \in Consumers :
        /\ c \in connectionSubscribers
        /\ Commit(unsubscribe(Cur, c))
        /\ Hist("unsubscribe", 0, "", closeStreak, streakAtOpen, userDisconnected)

MountThrowing(T) ==
    \E c \in Consumers, throws \in BOOLEAN :
        LET r == mount(CurThrowing(T), c, throws) IN
        /\ T \subseteq (IF IsOpen(Cur) THEN {c}
                        ELSE IF ConnectNotifies(Cur, throws) THEN Subscribed \cup {c}
                        ELSE {})
        /\ c \notin connectionSubscribers
        /\ Fits(r)
        /\ Commit(r)
        /\ Hist("mount", 0, ConnectBranch(CurThrowing(T), throws), closeStreak, streakAtOpen,
                IF isConnected(CurThrowing(T)) THEN userDisconnected ELSE FALSE)

Mount == MountThrowing({})

\* The pending reconnect timer fires: its callback calls connect().
TimerFireThrowing(T) ==
    \E h \in TimerIds, throws \in BOOLEAN :
        LET s0 == [CurThrowing(T) EXCEPT !.timers[h] = 0]
            r == connect(s0, throws)
        IN
        /\ timers[h] > 0
        /\ T # {} => ConnectNotifies(Cur, throws)
        /\ Fits(r)
        /\ Commit(r)
        /\ Hist("timer", 0, ConnectBranch(s0, throws),
                closeStreak, streakAtOpen, userDisconnected)

TimerFire == TimerFireThrowing({})

\* The connection of transport id is established.
TransportOpenThrowing(T) ==
    \E id \in TransportIds :
        LET s0 == [CurThrowing(T) EXCEPT !.readyState[id] = "OPEN"] IN
        /\ readyState[id] = "CONNECTING"
        /\ IF handlers[id]
           THEN /\ Commit(onopen(s0))
                /\ Hist("onopen", 0, "CONNECTING", 0, closeStreak, userDisconnected)
           ELSE /\ T = {}
                /\ Commit(s0)
                /\ Hist("open-unobserved", 0, "CONNECTING",
                        closeStreak, streakAtOpen, userDisconnected)

TransportOpen == TransportOpenThrowing({})

\* An EventSource fails: the browser leaves it CONNECTING (it will retry) or
\* CLOSED (fatal) and fires error.
SseErrorThrowing(T) ==
    \E id \in TransportIds, rs \in {"CONNECTING", "CLOSED"} :
        LET s0 == [CurThrowing(T) EXCEPT !.readyState[id] = rs] IN
        /\ kind = "SSE"
        /\ readyState[id] \in {"CONNECTING", "OPEN"}
        /\ handlers[id]
        /\ Fits(sseOnError(s0))
        /\ Commit(sseOnError(s0))
        /\ Hist("onerror", 0, readyState[id],
                closeStreak + 1, streakAtOpen, userDisconnected)

SseError == SseErrorThrowing({})

\* The peer starts the closing handshake of an open WebSocket.
WsClosing ==
    \E id \in TransportIds :
        /\ kind = "WS"
        /\ readyState[id] = "OPEN"
        /\ Commit([Cur EXCEPT !.readyState[id] = "CLOSING"])
        /\ Hist("closing", 0, "OPEN", closeStreak, streakAtOpen, userDisconnected)

\* A WebSocket is closed: a failed connection attempt (error, then close with
\* code 1006), a connection that ends (1006, after an error event or without
\* one, or a close code of the peer), or a finished closing handshake.  The
\* error and close events run in one task.
WsClosedThrowing(T) ==
    \E id \in TransportIds, code \in CloseCodes, withError \in BOOLEAN :
        LET s0 == [CurThrowing(T) EXCEPT !.readyState[id] = "CLOSED"]
            s1 == IF withError THEN wsOnError(s0) ELSE s0
            unexpected == code # NormalClosure /\ code # GoingAway
        IN
        /\ kind = "WS"
        /\ \/ readyState[id] = "CONNECTING" /\ code = AbnormalClosure /\ withError
           \/ readyState[id] = "OPEN" /\ (withError => code = AbnormalClosure)
           \/ readyState[id] = "CLOSING" /\ ~withError
        /\ handlers[id]
        /\ Fits(wsOnClose(s1, code))
        /\ Commit(wsOnClose(s1, code))
        /\ HistErr("onclose", code, readyState[id], withError,
                IF unexpected THEN closeStreak + 1 ELSE closeStreak,
                streakAtOpen, userDisconnected)

WsClosed == WsClosedThrowing({})

\* A WebSocket whose handlers cleanup() removed is closed: its attempt fails,
\* its closing handshake ends, or the collector closes it.
WsClosedUnobserved ==
    \E id \in TransportIds :
        /\ kind = "WS"
        /\ readyState[id] \in {"CONNECTING", "OPEN", "CLOSING"}
        /\ ~handlers[id]
        /\ Commit([Cur EXCEPT !.readyState[id] = "CLOSED"])
        /\ Hist("close-unobserved", 0, readyState[id],
                closeStreak, streakAtOpen, userDisconnected)

Next ==
    \/ Connect
    \/ Disconnect
    \/ Subscribe
    \/ Unsubscribe
    \/ Mount
    \/ TimerFire
    \/ TransportOpen
    \/ SseError
    \/ WsClosing
    \/ WsClosed
    \/ WsClosedUnobserved

Spec == Init /\ [][Next]_vars

\* A payload arrives on the open transport id.  The manager's transport runs
\* onmessage; a transport cleanup() dropped has no handler left.
TransportMessage(T) ==
    \E id \in TransportIds, payload \in Payloads :
        /\ readyState[id] = "OPEN"
        /\ IF handlers[id]
           THEN /\ T # {} => ~JSONparse(payload).throws
                /\ Commit(onmessage(CurThrowing(T), payload))
                /\ Hist("onmessage", payload, "OPEN",
                        closeStreak, streakAtOpen, userDisconnected)
           ELSE /\ T = {}
                /\ Commit(Cur)
                /\ Hist("message-unobserved", payload, "OPEN",
                        closeStreak, streakAtOpen, userDisconnected)

\* The manager with subscriber callbacks that may throw and with payloads
\* arriving on the transports.
NextFan ==
    \/ \E T \in SUBSET Subscribed : ConnectThrowing(T)
    \/ \E T \in SUBSET Subscribed : DisconnectThrowing(T)
    \/ \E T \in SUBSET Consumers : SubscribeThrowing(T)
    \/ Unsubscribe
    \/ \E T \in SUBSET Consumers : MountThrowing(T)
    \/ \E T \in SUBSET Subscribed : TimerFireThrowing(T)
    \/ \E T \in SUBSET Subscribed : TransportOpenThrowing(T)
    \/ \E T \in SUBSET Subscribed : SseErrorThrowing(T)
    \/ WsClosing
    \/ \E T \in SUBSET Subscribed : WsClosedThrowing(T)
    \/ WsClosedUnobserved
    \/ \E T \in SUBSET Subscribed : TransportMessage(T)

SpecFan == Init /\ [][NextFan]_vars

\* The manager with payloads arriving on the transports and callbacks that
\* do not throw.
NextStream ==
    \/ Connect
    \/ Disconnect
    \/ Subscribe
    \/ Unsubscribe
    \/ Mount
    \/ TimerFire
    \/ TransportOpen
    \/ SseError
    \/ WsClosing
    \/ WsClosed
    \/ WsClosedUnobserved
    \/ TransportMessage({})

SpecStream == Init /\ [][NextStream]_vars

TypeOK ==
    /\ kind \in {"SSE", "WS"}
    /\ eventSource \in {Null} \cup TransportIds
    /\ isConnecting \in BOOLEAN
    /\ reconnectTimeout \in {Null} \cup TimerIds
    /\ reconnectAttempts \in 0..maxReconnectAttempts
    /\ connectionSubscribers \subseteq Consumers
    /\ messageSubscribers = connectionSubscribers
    /\ errorSubscribers = connectionSubscribers
    /\ readyState \in [TransportIds -> ReadyStates]
    /\ handlers \in [TransportIds -> BOOLEAN]
    /\ \A h \in TimerIds : timers[h] >= 0
    /\ msgOut \in [Consumers -> Seq(Payloads)]
    /\ caught \subseteq Consumers
    /\ escaped \in BOOLEAN

\* -------------------------------------------- the store under its callers
\* The dashboard's store with the stream open and useSSE subscribed: payloads
\* arrive and are dispatched, and callers use the store's operations.

\* The consumer id of the useSSE hook.
TheHook == 1

\* Buffers as earlier calls of addLog and updatePerformanceHistory left them:
\* n entries, the i-th carrying i.
FillerLogs(n) ==
    [i \in 1..n |-> [timestamp |-> i - n, level |-> "INFO",
                     message |-> Text("filler", <<>>, <<i>>)]]

FillerHistory(n) ==
    [timestamps |-> [i \in 1..n |-> i - n],
     memory |-> [i \in 1..n |-> i],
     queue |-> [i \in 1..n |-> 2 * i],
     processing_delay |-> [i \in 1..n |-> 3 * i],
     message_rate |-> [i \in 1..n |-> 0]]

\* The buffer lengths the store starts from: empty, one below the cap, at
\* the cap.
InitialFills == {0, 999, 1000}

InitStore ==
    /\ kind = "SSE"
    /\ eventSource = 1
    /\ isConnecting = FALSE
    /\ reconnectTimeout = Null
    /\ reconnectAttempts = 0
    /\ connectionSubscribers = {TheHook}
    /\ messageSubscribers = {TheHook}
    /\ errorSubscribers = {TheHook}
    /\ readyState = [i \in TransportIds |-> IF i = 1 THEN "OPEN" ELSE "NONE"]
    /\ handlers = [i \in TransportIds |-> i = 1]
    /\ timers = [h \in TimerIds |-> 0]
    /\ connOut = NoOut
    /\ errOut = NoOut
    /\ msgOut = NoOut
    /\ caught = {}
    /\ escaped = FALSE
    /\ lastOp = [op |-> "onopen", arg |-> 0, pre |-> "CONNECTING", err |-> FALSE]
    /\ closeStreak = 0
    /\ streakAtOpen = 0
    /\ userDisconnected = FALSE
    /\ \E n \in InitialFills :
        state = [initialState EXCEPT !.logs = FillerLogs(n),
                                     !.performance_history = FillerHistory(n)]
    /\ messageCount = 0
    /\ messageTimestamps = <<>>
    /\ now = 1
    /\ storeOp = [op |-> "init", arg |-> 0, pre |-> 0]
    /\ steps = 0
    /\ page = initialPage
    /\ pageOp = [op |-> "init", arg |-> 0]
    /\ restartRequested = FALSE
    /\ arrivals = <<>>

\* A step of a caller of the store: the manager is left as it is.
StoreStep(st, op, arg) ==
    /\ steps < MaxSteps
    /\ steps' = steps + 1
    /\ CommitStore(st)
    /\ storeOp' = [op |-> op, arg |-> arg,
                   pre |-> state.orderbook_data.sequence_id]
    /\ UNCHANGED <<kind, mgrVars, connOut, errOut, msgOut, caught, escaped,
                   lastOp, closeStreak, streakAtOpen, userDisconnected, pageVars, arrivals>>

\* A payload arrives on the open transport: onmessage parses it and
\* notifyMessage hands the envelope to handleMessage of the hook.
StoreMessage ==
    \E payload \in StorePayloads :
        LET r == onmessage(Cur, payload)
            got == r.msgOut[TheHook]
            st == IF got = <<>> THEN CurStore
                  ELSE handleMessage(CurStore, WireEnvelopes[got[1]])
        IN
        /\ steps < MaxSteps
        /\ steps' = steps + 1
        /\ IsOpen(Cur)
        /\ CommitManager(r)
        /\ Hist("onmessage", payload, "OPEN",
                closeStreak, streakAtOpen, userDisconnected)
        /\ CommitStore(st)
        /\ storeOp' = [op |-> "dispatch", arg |-> payload,
                       pre |-> state.orderbook_data.sequence_id]
        /\ UNCHANGED <<pageVars, arrivals>>

UpdateMetrics ==
    \E i \in 1..Len(MetricsPartials) :
        StoreStep(updateMetrics(CurStore, MetricsPartials[i]), "updateMetrics", i)

UpdateOrderbook ==
    \E i \in 1..Len(OrderbookPartials) :
        StoreStep(updateOrderbook(CurStore, OrderbookPartials[i]),
                  "updateOrderbook", i)

AddLog ==
    \E level \in {"INFO", "ERROR"} :
        StoreStep(addLog(CurStore, level, Text("note", <<>>, <<steps>>)),
                  "addLog", 0)

AddIncident ==
    StoreStep(addIncident(CurStore,
                  [timestamp |-> now, type |-> "manual",
                   details |-> Text("note", <<>>, <<>>),
                   scenario |-> "stable-mode", uptime |-> steps]),
              "addIncident", 0)

\* The samples (memory, queue, delay, messageRate) callers pass to
\* updatePerformanceHistory.
HistorySamples == {<<11, 12, 13, 0>>, <<21, 22, 23, 2>>}

UpdatePerformanceHistory ==
    \E sample \in HistorySamples :
        StoreStep(updatePerformanceHistory(CurStore, sample[1], sample[2],
                                           sample[3], sample[4]),
                  "updatePerformanceHistory", sample[1])

\* Time passes.
Tick ==
    \E d \in {500, 5000, 10000} :
        /\ steps < MaxSteps
        /\ steps' = steps + 1
        /\ now' = now + d
        /\ storeOp' = [op |-> "tick", arg |-> d,
                       pre |-> state.orderbook_data.sequence_id]
        /\ UNCHANGED <<state, messageCount, messageTimestamps>>
        /\ UNCHANGED <<kind, mgrVars, connOut, errOut, msgOut, caught, escaped,
                       lastOp, closeStreak, streakAtOpen, userDisconnected, pageVars, arrivals>>

NextStore ==
    \/ StoreMessage
    \/ UpdateMetrics
    \/ UpdateOrderbook
    \/ AddLog
    \/ AddIncident
    \/ UpdatePerformanceHistory
    \/ Tick

SpecStore == InitStore /\ [][NextStore]_vars

StoreTypeOK ==
    /\ DOMAIN state =
        {"orderbook_data", "metrics", "incidents", "logs", "performance_history"}
    /\ messageCount \in Nat
    /\ now \in Nat
    /\ steps \in 0..MaxSteps

\* ------------------------------------------------- the rate estimator
\* The store under a stream of envelopes and the passage of time, with the
\* times of all orderbook updates kept in arrivals.

\* The gap between the arrivals that precede the initial state: ten of them
\* are spread over the window.
arrivalGap == rateWindow \div 10

\* n earlier arrivals, arrivalGap apart, the last one at time last.
FillerArrivals(n, last) == [i \in 1..n |-> last - arrivalGap * (n - i)]

\* The numbers of earlier arrivals the store starts from: none, nine, ten
\* (ten arrivals 500 ms apart are spread over 5 seconds).
InitialArrivals == {0, 9, 10}

\* The envelopes of the rate specification: the orderbook updates and the
\* heartbeats.
RatePayloads ==
    {i \in 1..Len(WireEnvelopes) :
        WireEnvelopes[i].type \in {"orderbook_update", "heartbeat"}}

InitRate ==
    /\ kind = "SSE"
    /\ eventSource = 1
    /\ isConnecting = FALSE
    /\ reconnectTimeout = Null
    /\ reconnectAttempts = 0
    /\ connectionSubscribers = {TheHook}
    /\ messageSubscribers = {TheHook}
    /\ errorSubscribers = {TheHook}
    /\ readyState = [i \in TransportIds |-> IF i = 1 THEN "OPEN" ELSE "NONE"]
    /\ handlers = [i \in TransportIds |-> i = 1]
    /\ timers = [h \in TimerIds |-> 0]
    /\ connOut = NoOut
    /\ errOut = NoOut
    /\ msgOut = NoOut
    /\ caught = {}
    /\ escaped = FALSE
    /\ lastOp = [op |-> "onopen", arg |-> 0, pre |-> "CONNECTING", err |-> FALSE]
    /\ closeStreak = 0
    /\ streakAtOpen = 0
    /\ userDisconnected = FALSE
    /\ state = initialState
    /\ now = rateWindow
    /\ \E n \in InitialArrivals :
        /\ messageCount = n
        /\ messageTimestamps = FillerArrivals(n, now)
        /\ arrivals = FillerArrivals(n, now)
    /\ storeOp = [op |-> "init", arg |-> 0, pre |-> 0]
    /\ steps = 0
    /\ page = initialPage
    /\ pageOp = [op |-> "init", arg |-> 0]
    /\ restartRequested = FALSE

\* A step of the rate specification: the manager and the page are left as
\* they are.
RateStep(op, arg) ==
    /\ steps < MaxRateSteps
    /\ steps' = steps + 1
    /\ storeOp' = [op |-> op, arg |-> arg,
                   pre |-> state.orderbook_data.sequence_id]
    /\ UNCHANGED <<kind, mgrVars, connOut, errOut, msgOut, caught, escaped,
                   lastOp, closeStreak, streakAtOpen, userDisconnected, pageVars>>

\* An envelope arrives and useSSE.handleMessage dispatches it.
RateMessage ==
    \E payload \in RatePayloads :
        /\ RateStep("dispatch", payload)
        /\ CommitStore(handleMessage(CurStore, WireEnvelopes[payload]))
        /\ arrivals' = IF WireEnvelopes[payload].type = "orderbook_update"
                       THEN Append(arrivals, now) ELSE arrivals

\* Time passes.
RateTick ==
    \E d \in {arrivalGap, rateWindow - arrivalGap, rateWindow, timestampWindow} :
        /\ RateStep("tick", d)
        /\ now' = now + d
        /\ UNCHANGED <<state, messageCount, messageTimestamps, arrivals>>

NextRate ==
    \/ RateMessage
    \/ RateTick

SpecRate == InitRate /\ [][NextRate]_vars

\* ------------------------------------------------------- the dashboard
\* TradingDashboard over SSESingleton, useSSE and the store.  A world is the
\* record [m, st, pg]: the manager, the store, the page.

World(m, st, pg) == [m |-> m, st |-> st, pg |-> pg]

\* useSSE.handleConnectionChange / handleError
handleConnectionChange(w, connected) ==
    [w EXCEPT !.pg.isConnected = connected,
              !.pg.error = IF connected THEN NoError ELSE @,
              !.st = IF connected
                     THEN addLog(@, "INFO", Text("SSE connected successfully", <<>>, <<>>))
                     ELSE addLog(@, "WARNING", Text("SSE connection lost", <<>>, <<>>))]

handleError(w, errorMessage) ==
    [w EXCEPT !.pg.error = errorMessage,
              !.st = addLog(@, "ERROR", Text(errorMessage, <<>>, <<>>))]

\* The callbacks of useSSE run on what the manager handed to them in this
\* call: connection changes, then errors, then envelopes.
RECURSIVE RunCallbacks(_, _, _, _)
RunCallbacks(w, conn, err, msg) ==
    IF conn # <<>>
    THEN RunCallbacks(handleConnectionChange(w, Head(conn)), Tail(conn), err, msg)
    ELSE IF err # <<>>
    THEN RunCallbacks(handleError(w, Head(err)), conn, Tail(err), msg)
    ELSE IF msg # <<>>
    THEN RunCallbacks([w EXCEPT !.st = handleMessage(@, WireEnvelopes[Head(msg)])],
                      conn, err, Tail(msg))
    ELSE w

\* A method or handler of the manager has run and left m; the hook's
\* callbacks it invoked run on the store and the page.
Notified(w, m) ==
    RunCallbacks([w EXCEPT !.m = m],
                 m.connOut[TheHook], m.errOut[TheHook], m.msgOut[TheHook])

\* The dependencies of the staleness effect.
StalenessDeps(w) ==
    <<w.st.state.orderbook_data.is_stale, w.st.state.orderbook_data.data_age_ms,
      w.pg.isDisconnectedDueToStaleness, w.pg.isResetting>>

\* A staleness effect that re-arms by itself once the snapshot is fresh.
stalenessEffect_Rearms(w) ==
    LET ob == w.st.state.orderbook_data
        isCurrentlyStale == ob.is_stale /\ ob.data_age_ms > stalenessThreshold
        w1 == [w EXCEPT !.pg.effectDeps = StalenessDeps(w)]
    IN  IF w.pg.isResetting THEN w1
        ELSE IF isCurrentlyStale /\ ~w.pg.isDisconnectedDueToStaleness
        THEN Notified([w1 EXCEPT !.pg.stalenessDisconnectInfo =
                                     [dataAge |-> ob.data_age_ms, timestamp |-> w.st.now],
                                 !.pg.isDisconnectedDueToStaleness = TRUE],
                      disconnect(w1.m))
        ELSE IF ~isCurrentlyStale
        THEN [w1 EXCEPT !.pg.isDisconnectedDueToStaleness = FALSE]
        ELSE w1

\* A staleness effect that trips at the threshold already.
stalenessEffect_AtThreshold(w) ==
    LET ob == w.st.state.orderbook_data
        isCurrentlyStale == ob.is_stale /\ ob.data_age_ms >= stalenessThreshold
        w1 == [w EXCEPT !.pg.effectDeps = StalenessDeps(w)]
    IN  IF w.pg.isResetting THEN w1
        ELSE IF isCurrentlyStale /\ ~w.pg.isDisconnectedDueToStaleness
        THEN Notified([w1 EXCEPT !.pg.stalenessDisconnectInfo =
                                     [dataAge |-> ob.data_age_ms, timestamp |-> w.st.now],
                                 !.pg.isDisconnectedDueToStaleness = TRUE],
                      disconnect(w1.m))
        ELSE w1

\* A staleness effect without the check of isResetting.
stalenessEffect_IgnoresReset(w) ==
    LET ob == w.st.state.orderbook_data
        isCurrentlyStale == ob.is_stale /\ ob.data_age_ms > stalenessThreshold
        w1 == [w EXCEPT !.pg.effectDeps = StalenessDeps(w)]
    IN  IF isCurrentlyStale /\ ~w.pg.isDisconnectedDueToStaleness
        THEN Notified([w1 EXCEPT !.pg.stalenessDisconnectInfo =
                                     [dataAge |-> ob.data_age_ms, timestamp |-> w.st.now],
                                 !.pg.isDisconnectedDueToStaleness = TRUE],
                      disconnect(w1.m))
        ELSE w1

\* The staleness effect (it runs when one of its dependencies changed).
stalenessEffect(w) ==
    LET ob == w.st.state.orderbook_data
        isCurrentlyStale == ob.is_stale /\ ob.data_age_ms > stalenessThreshold
        w1 == [w EXCEPT !.pg.effectDeps = StalenessDeps(w)]
    IN  IF w.pg.isResetting THEN w1
        ELSE IF isCurrentlyStale /\ ~w.pg.isDisconnectedDueToStaleness
        THEN Notified([w1 EXCEPT !.pg.stalenessDisconnectInfo =
                                     [dataAge |-> ob.data_age_ms, timestamp |-> w.st.now],
                                 !.pg.isDisconnectedDueToStaleness = TRUE],
                      disconnect(w1.m))
        ELSE w1

\* useDashboardState.resetToInitialState
resetToInitialState(st) == [st EXCEPT !.state = initialState]

\* setTimeout(callback, 1000) of the page; all its timeouts have the same
\* delay and so fire in the order they were set.
pageTimeout(w, callback) == [w EXCEPT !.pg.timeouts = Append(@, callback)]

\* handlePlayToggle up to its first await.
playToggleClick(w) ==
    IF w.pg.isPlayButtonLoading THEN w
    ELSE IF w.pg.isDataProcessing
    THEN [w EXCEPT !.pg.isPlayButtonLoading = TRUE, !.pg.toggle = "stop:fetch"]
    ELSE [w EXCEPT !.pg.isPlayButtonLoading = TRUE, !.pg.isResetting = TRUE,
                   !.pg.toggle = "start:fetch"]

\* handlePlayToggle's catch and finally.
playToggleCatch(w) ==
    [w EXCEPT !.st = addLog(@, "ERROR",
                        Text("Failed to toggle data processing: Connection error",
                             <<>>, <<>>)),
              !.pg.isResetting = FALSE,
              !.pg.isPlayButtonLoading = FALSE,
              !.pg.toggle = "idle"]

playToggleFinally(w) ==
    [w EXCEPT !.pg.isPlayButtonLoading = FALSE, !.pg.toggle = "idle"]

\* handlePlayToggle after `await fetch('/stop')`; outcome is "ok", "failed"
\* (response.ok false) or "threw".
stopResponse(w, outcome) ==
    IF outcome = "threw" THEN playToggleCatch(w)
    ELSE IF outcome = "failed"
    THEN playToggleFinally(
             [w EXCEPT !.st = addLog(@, "ERROR",
                                 Text("Failed to stop data processing", <<>>, <<>>))])
    ELSE LET w1 == [w EXCEPT !.st = addLog(@, "INFO",
                                 Text("Data processing stopped by user", <<>>, <<>>)),
                             !.pg.isDataProcessing = FALSE]
         IN  playToggleFinally(Notified(w1, disconnect(w1.m)))

\* handlePlayToggle after `await fetch('/start')`, up to the await of
\* handleProfileSwitch.
startResponse(w, outcome) ==
    IF outcome = "threw" THEN playToggleCatch(w)
    ELSE IF outcome = "failed"
    THEN playToggleFinally(
             [w EXCEPT !.st = addLog(@, "ERROR",
                                 Text("Failed to start data processing", <<>>, <<>>)),
                       !.pg.isResetting = FALSE])
    ELSE LET w1 == [w EXCEPT !.st = resetToInitialState(
                                 addLog(@, "INFO",
                                        Text("Data processing started", <<>>, <<>>))),
                             !.pg.isDisconnectedDueToStaleness = FALSE,
                             !.pg.stalenessDisconnectInfo = Null,
                             !.pg.toggle = "start:profile"]
         IN  Notified(w1, disconnect(w1.m))

\* handlePlayToggle after `await handleProfileSwitch('stable-mode')`.
profileSwitched(w) == playToggleFinally(pageTimeout(w, "connect"))

\* The callbacks of the page's two timeouts.
connectTimeout(w, throws) ==
    LET w1 == Notified(w, connect(w.m, throws))
    IN  pageTimeout([w1 EXCEPT !.pg.isDataProcessing = TRUE], "unreset")

unresetTimeout_KeepsResetting(w) == w

unresetTimeout(w) == [w EXCEPT !.pg.isResetting = FALSE]

\* The dashboard's world as the variables hold it.
CurWorld == World(Cur, CurStore, page)

\* The envelopes of the dashboard specification: the orderbook updates
\* whose data is as old as the staleness threshold or older: one stale
\* exactly at the threshold, one beyond it but not flagged stale, one stale
\* far beyond it.
DashPayloads ==
    {i \in 1..Len(WireEnvelopes) :
        /\ WireEnvelopes[i].type = "orderbook_update"
        /\ WireEnvelopes[i].data.data_age_ms >= stalenessThreshold}

\* What the dashboard specification keeps of the store: the snapshot, the
\* metrics and the incidents; the log and the counters of the rate estimator
\* are left out.
DashStore(st) ==
    [st EXCEPT !.state.logs = <<>>,
               !.messageCount = 0,
               !.messageTimestamps = <<>>]

\* The dashboard just after TradingDashboard mounted: useSSE subscribed and
\* called connect(), the staleness effect ran on the initial values.
InitDash ==
    /\ kind = "SSE"
    /\ eventSource = 1
    /\ isConnecting = TRUE
    /\ reconnectTimeout = Null
    /\ reconnectAttempts = 0
    /\ connectionSubscribers = {TheHook}
    /\ messageSubscribers = {TheHook}
    /\ errorSubscribers = {TheHook}
    /\ readyState = [i \in TransportIds |-> IF i = 1 THEN "CONNECTING" ELSE "NONE"]
    /\ handlers = [i \in TransportIds |-> i = 1]
    /\ timers = [h \in TimerIds |-> 0]
    /\ connOut = NoOut
    /\ errOut = NoOut
    /\ msgOut = NoOut
    /\ caught = {}
    /\ escaped = FALSE
    /\ lastOp = [op |-> "mount", arg |-> 0, pre |-> "created", err |-> FALSE]
    /\ closeStreak = 0
    /\ streakAtOpen = 0
    /\ userDisconnected = FALSE
    /\ state = initialState
    /\ messageCount = 0
    /\ messageTimestamps = <<>>
    /\ now = 1
    /\ storeOp = [op |-> "init", arg |-> 0, pre |-> 0]
    /\ steps = 0
    /\ page = initialPage
    /\ pageOp = [op |-> "mount", arg |-> 0]
    /\ restartRequested = FALSE
    /\ arrivals = <<>>

\* The steps the dashboard specification tells apart afterwards: a
\* staleness trip and the successful Stop and Start.
PageOps == {"trip", "stop:ok", "start:ok"}

\* A step of the dashboard that leaves the world w; op names the callback
\* that ran.  What the manager handed to the hook has been consumed by it.
DashStep(w, op, arg) ==
    \E v \in {w} :
        /\ Fits(v.m)
        /\ CommitManager([v.m EXCEPT !.connOut = NoOut, !.errOut = NoOut,
                                     !.msgOut = NoOut])
        /\ CommitStore(DashStore(v.st))
        /\ page' = v.pg
        /\ pageOp' = [op |-> IF op \in PageOps THEN op ELSE "other", arg |-> arg]
        /\ UNCHANGED <<lastOp, closeStreak, streakAtOpen, userDisconnected, storeOp,
                       steps, arrivals>>

\* React flushes the effects of a render before it handles the next event:
\* the staleness effect has run on the values the page now shows.
EffectsFlushed == StalenessDeps(CurWorld) = page.effectDeps

\* A step of the dashboard made by an event handler (a transport event, a
\* timer, a click, a response).
DashEvent(w, op, arg) ==
    /\ EffectsFlushed
    /\ DashStep(w, op, arg)

\* The connection of the transport is established.
DashTransportOpen ==
    \E id \in TransportIds :
        /\ readyState[id] = "CONNECTING"
        /\ handlers[id]
        /\ DashEvent(Notified(CurWorld,
                             onopen([Cur EXCEPT !.readyState[id] = "OPEN"])),
                    "onopen", 0)
        /\ UNCHANGED restartRequested

\* The EventSource fails and fires error.
DashSseError ==
    \E id \in TransportIds, rs \in {"CONNECTING", "CLOSED"} :
        /\ readyState[id] \in {"CONNECTING", "OPEN"}
        /\ handlers[id]
        /\ DashEvent(Notified(CurWorld,
                             sseOnError([Cur EXCEPT !.readyState[id] = rs])),
                    "onerror", 0)
        /\ UNCHANGED restartRequested

\* The manager's pending reconnect timer fires: its callback calls connect().
DashTimerFire ==
    \E h \in TimerIds, throws \in BOOLEAN :
        LET s0 == [Cur EXCEPT !.timers[h] = 0] IN
        /\ timers[h] > 0
        /\ DashEvent(Notified(CurWorld, connect(s0, throws)),
                    "timer", 0)
        /\ UNCHANGED restartRequested

\* An orderbook update arrives on the open transport.
DashMessage ==
    \E payload \in DashPayloads :
        /\ IsOpen(Cur)
        /\ handlers[eventSource]
        /\ DashEvent(Notified(CurWorld, onmessage(Cur, payload)),
                    "onmessage", 0)
        /\ UNCHANGED restartRequested

\* React runs the staleness effect: one of its dependencies changed since
\* it last ran.
StalenessEffect ==
    /\ ~EffectsFlushed
    /\ \E w \in {stalenessEffect(CurWorld)} :
           LET tripped == w.pg.isDisconnectedDueToStaleness
                          /\ ~page.isDisconnectedDueToStaleness
           IN  /\ DashStep(w, IF tripped THEN "trip" ELSE "effect",
                           state.orderbook_data.data_age_ms)
               /\ restartRequested' = IF tripped THEN FALSE ELSE restartRequested

\* The status poll answers: the publisher is running or it is not.
StatusPoll ==
    \E running \in BOOLEAN :
        /\ DashEvent([CurWorld EXCEPT !.pg.isDataProcessing = running],
                    "poll", 0)
        /\ UNCHANGED restartRequested

\* The user clicks the play button: Stop while data is processing, Start
\* otherwise.
ClickPlay ==
    /\ ~page.isPlayButtonLoading
    /\ page.isDataProcessing \/ Len(page.timeouts) < MaxPageTimers
    /\ DashEvent(playToggleClick(CurWorld),
                IF page.isDataProcessing THEN "click:stop" ELSE "click:start",
                0)
    /\ restartRequested' = IF page.isDataProcessing THEN restartRequested ELSE TRUE

\* The server answers the stop request, or the request fails.
StopResponse ==
    \E outcome \in {"ok", "failed", "threw"} :
        /\ page.toggle = "stop:fetch"
        /\ DashEvent(stopResponse(CurWorld, outcome), "stop:" \o outcome, 0)
        /\ UNCHANGED restartRequested

\* The server answers the start request, or the request fails.
StartResponse ==
    \E outcome \in {"ok", "failed", "threw"} :
        /\ page.toggle = "start:fetch"
        /\ \E w \in {CurWorld} :
               DashEvent(startResponse(w, outcome), "start:" \o outcome, 0)
        /\ UNCHANGED restartRequested

\* handleProfileSwitch returns (it catches its own failures).
ProfileSwitched ==
    /\ page.toggle = "start:profile"
    /\ \E w \in {CurWorld} :
           DashEvent(profileSwitched(w), "start:scheduled", 0)
    /\ UNCHANGED restartRequested

\* The oldest pending timeout of the page fires.
PageTimerFire ==
    /\ page.timeouts # <<>>
    /\ \E w0 \in {[CurWorld EXCEPT !.pg.timeouts = Tail(@)]} :
       IF Head(page.timeouts) = "connect"
       THEN \E throws \in BOOLEAN :
                DashEvent(connectTimeout(w0, throws), "timeout:connect", 0)
       ELSE DashEvent(unresetTimeout(w0), "timeout:unreset", 0)
    /\ UNCHANGED restartRequested

NextDash ==
    \/ DashTransportOpen
    \/ DashSseError
    \/ DashTimerFire
    \/ DashMessage
    \/ StalenessEffect
    \/ StatusPoll
    \/ ClickPlay
    \/ StopResponse
    \/ StartResponse
    \/ ProfileSwitched
    \/ PageTimerFire

SpecDash == InitDash /\ [][NextDash]_vars

\* The dashboard under the scheduling of the browser: an effect that is due
\* runs before the next event is handled, a request that was sent settles,
\* an awaited call returns and a timeout that was set fires.  The handlers
\* wait while an effect is due, so their fairness is the strong one.
SpecDashLive ==
    /\ InitDash /\ [][NextDash]_vars
    /\ WF_vars(StalenessEffect)
    /\ SF_vars(StartResponse)
    /\ SF_vars(ProfileSwitched)
    /\ SF_vars(PageTimerFire)

DashTypeOK ==
    /\ page.toggle \in {"idle", "stop:fetch", "start:fetch", "start:profile"}
    /\ Len(page.timeouts) <= MaxPageTimers + 1
    /\ state.logs = <<>>
    /\ restartRequested \in BOOLEAN

\* -------------------------------------------------------------- properties

\* Transports whose connection is being established or is established.
Live == {i \in TransportIds : readyState[i] \in {"CONNECTING", "OPEN"}}

\* Transports cleanup() has detached from the manager.
DroppedByCleanup == {i \in TransportIds : readyState[i] # "NONE" /\ ~handlers[i]}

PendingTimers == {h \in TimerIds : timers[h] > 0}

\* The step l records was an unexpected close seen by the manager.
UnexpectedClose(l) ==
    l.op = "onerror" \/ (l.op = "onclose" /\ l.arg = AbnormalClosure)

\* C1: in every reachable state at most one transport is connecting or open,
\* and no transport that cleanup() dropped is open.
C1_AtMostOneLiveTransport ==
    /\ Cardinality(Live) <= 1
    /\ \A i \in DroppedByCleanup : readyState[i] # "OPEN"

\* C2: connect() called while a connection attempt is in progress or while
\* the transport is open changes nothing of the manager (no transport closed
\* or created, reconnectAttempts and the reconnect timer as before) and
\* notifies no subscriber.
C2_ConnectIsNoOpWhenBusy ==
    [][(lastOp'.op = "connect" /\ (isConnecting \/ IsOpen(Cur)))
        => (UNCHANGED mgrVars /\ connOut' = NoOut /\ errOut' = NoOut)]_vars

C2_Witness ==
    /\ lastOp.op = "connect"
    /\ lastOp.pre = "connecting"
    /\ isConnecting
    /\ eventSource # Null
    /\ reconnectAttempts > 0

\* C3: right after disconnect() no transport is live, no reconnect timer is
\* pending, reconnectAttempts is 0, isConnected() is false and every
\* registered connection subscriber has been told connected = false.
C3_DisconnectTearsDown ==
    lastOp.op = "disconnect" =>
        /\ Live = {}
        /\ eventSource = Null
        /\ PendingTimers = {}
        /\ reconnectAttempts = 0
        /\ ~isConnected(Cur)
        /\ \A c \in connectionSubscribers : connOut[c] = <<FALSE>>

\* C4: the first explicit connect() after a disconnect() constructs a new
\* transport and leaves the manager connecting (unless the constructor throws).
C4_ConnectAfterDisconnectStarts ==
    [][(userDisconnected /\ lastOp'.op = "connect" /\ lastOp'.pre # "threw")
        => /\ isConnecting'
           /\ eventSource' # Null
           /\ eventSource' \in FreeIds(Cur)
           /\ readyState'[eventSource'] = "CONNECTING"]_vars

\* C5: from a disconnect() until the next explicit connect() no reconnect
\* timer is pending (so none fires) and no transport exists.
C5_QuietAfterDisconnect ==
    userDisconnected =>
        /\ PendingTimers = {}
        /\ eventSource = Null
        /\ Live = {}

\* C6: the timer scheduled on the k-th consecutive unexpected close (k from 0)
\* has delay baseDelay * 2^k and k is below the ceiling; once the ceiling is
\* reached no timer is scheduled and a firing timer constructs no transport.
C6_BackoffDelay ==
    [][/\ \A h \in TimerIds :
            (timers[h] = 0 /\ timers'[h] > 0) =>
                /\ closeStreak < maxReconnectAttempts
                /\ timers'[h] = baseDelay * Pow2(closeStreak)
       /\ (UnexpectedClose(lastOp') /\ closeStreak < maxReconnectAttempts)
            => \E h \in TimerIds : timers[h] = 0 /\ timers'[h] > 0
       /\ closeStreak >= maxReconnectAttempts =>
            /\ PendingTimers' \subseteq PendingTimers
            /\ (lastOp'.op = "timer" => Live' \subseteq Live)]_vars

C6_Witness ==
    /\ closeStreak = maxReconnectAttempts
    /\ \E h \in TimerIds : timers[h] = baseDelay * 16

\* C7: a successful open sets reconnectAttempts to 0, and the unexpected close
\* of a transport that had opened schedules its reconnect with baseDelay * 2^0.
C7_OpenResetsBackoff ==
    [][/\ lastOp'.op = "onopen" => reconnectAttempts' = 0
       /\ (UnexpectedClose(lastOp') /\ lastOp'.pre \in {"OPEN", "CLOSING"})
            => \E h \in TimerIds : timers[h] = 0 /\ timers'[h] = baseDelay]_vars

C7_Witness ==
    /\ UnexpectedClose(lastOp)
    /\ lastOp.pre = "OPEN"
    /\ streakAtOpen >= 2
    /\ reconnectTimeout # Null
    /\ timers[reconnectTimeout] = baseDelay

\* C8: the timer callback that finds the ceiling exhausted delivers the
\* terminal error to every registered error subscriber, and while the ceiling
\* is exhausted no timer or transport event creates a transport or a timer.
C8_ExhaustionIsTerminal ==
    [][/\ (lastOp'.op = "timer" /\ reconnectAttempts >= maxReconnectAttempts)
            => \A c \in errorSubscribers :
                   errOut'[c] = <<"Max reconnection attempts reached">>
       /\ (reconnectAttempts >= maxReconnectAttempts
           /\ lastOp'.op \notin {"connect", "mount", "disconnect"})
            => /\ reconnectAttempts' >= maxReconnectAttempts
               /\ Live' \subseteq Live
               /\ PendingTimers' \subseteq PendingTimers
               /\ eventSource' = Null]_vars

C8_Witness ==
    /\ lastOp.op = "timer"
    /\ lastOp.pre = "ceiling"
    /\ errorSubscribers = Consumers
    /\ \A c \in Consumers : errOut[c] = <<"Max reconnection attempts reached">>
    /\ Live = {}
    /\ PendingTimers = {}

\* C9: an explicit connect() after the ceiling is exhausted resets the retry
\* state and constructs a new transport (unless the constructor throws).
C9_ConnectRecoversFromExhaustion ==
    [][(reconnectAttempts >= maxReconnectAttempts
        /\ lastOp'.op = "connect" /\ lastOp'.pre # "threw")
        => /\ reconnectAttempts' < maxReconnectAttempts
           /\ eventSource' # Null
           /\ readyState'[eventSource'] = "CONNECTING"]_vars

\* C10: subscribe() delivers connected = true exactly once to the new
\* subscriber when the transport is open and nothing when it is not; a
\* connection notification reaches a subscriber only in its own subscribe
\* while open or in an open, error/close or disconnect step.
C10_SubscribeReplaysOpenOnly ==
    [][\A c \in Consumers :
        /\ (lastOp'.op \in {"subscribe", "mount"}
            /\ c \in connectionSubscribers' \ connectionSubscribers)
            => connOut'[c] = IF IsOpen(Cur) THEN <<TRUE>> ELSE <<>>
        /\ connOut'[c] # <<>>
            => \/ lastOp'.op \in {"onopen", "onerror", "onclose", "disconnect"}
               \/ /\ lastOp'.op \in {"subscribe", "mount"}
                  /\ c \in connectionSubscribers' \ connectionSubscribers
                  /\ IsOpen(Cur)]_vars

C10_Witness ==
    /\ lastOp.op = "subscribe"
    /\ connectionSubscribers = Consumers
    /\ \E c \in Consumers :
        /\ connOut[c] = <<TRUE>>
        /\ \A d \in Consumers \ {c} : connOut[d] = <<>>

\* C11: the message step of the manager's transport with a well-formed
\* envelope invokes the message callback of every subscriber registered at
\* that moment exactly once, with that envelope, and of nobody else; no other
\* step invokes a message callback.  Each arrival is dispatched within its
\* own step, so every subscriber sees the envelopes in arrival order.
C11_FanOutOncePerEnvelope ==
    [][\A c \in Consumers :
        msgOut'[c] =
            IF /\ lastOp'.op = "onmessage"
               /\ lastOp'.arg \in Envelopes
               /\ c \in messageSubscribers
            THEN <<lastOp'.arg>>
            ELSE <<>>]_vars

C11_Witness ==
    /\ lastOp.op = "onmessage"
    /\ messageSubscribers = Consumers
    /\ caught # {}
    /\ \A c \in Consumers : msgOut[c] = <<MaxEnvelopes>>

\* What a method leaves behind apart from the record of who threw.
Outcome(s) == [s EXCEPT !.throwing = {}, !.caught = {}, !.escaped = FALSE]

\* The method run with throwing callbacks (a) against the same run with
\* callbacks that return (b): no exception leaves the method, and state and
\* notifications are the same.
Isolated(a, b) == ~a.escaped /\ Outcome(a) = Outcome(b)

\* Every method of the manager that fans a notification out through
\* notifyConnectionChange / notifyMessage / notifyError isolates the callbacks
\* in T.
FanOutIsolated(T) ==
    LET s == CurThrowing(T) IN
    /\ \A throws \in BOOLEAN : Isolated(connect(s, throws), connect(Cur, throws))
    /\ Isolated(disconnect(s), disconnect(Cur))
    /\ Isolated(onopen(s), onopen(Cur))
    /\ \A payload \in Payloads : Isolated(onmessage(s, payload), onmessage(Cur, payload))
    /\ kind = "SSE" => Isolated(sseOnError(s), sseOnError(Cur))
    /\ kind = "WS" =>
        /\ Isolated(wsOnError(s), wsOnError(Cur))
        /\ \A code \in CloseCodes : Isolated(wsOnClose(s, code), wsOnClose(Cur, code))

\* C12: whichever callbacks throw, in every reachable state every method of
\* the manager that notifies subscribers (connect, disconnect, the transport
\* handlers, and subscribe with its replay) lets no exception out, notifies
\* every registered subscriber and leaves the same flags, timers and
\* transports as with callbacks that do not throw.
C12_ThrowingCallbackIsIsolated ==
    \A T \in SUBSET Consumers :
        /\ FanOutIsolated(T)
        /\ \A c \in Consumers \ connectionSubscribers :
            /\ Isolated(subscribe(CurThrowing(T), c), subscribe(Cur, c))
            /\ \A throws \in BOOLEAN :
                Isolated(mount(CurThrowing(T), c, throws), mount(Cur, c, throws))

\* The part of C12 that is about the three notify methods.
C12_NotifyMethodsIsolate == \A T \in SUBSET Consumers : FanOutIsolated(T)

\* A callback threw into the catch of a notify method and a subscriber whose
\* callback did not throw got the same notification.
C12_CaughtReached ==
    /\ caught # {}
    /\ \E c \in connectionSubscribers \ caught : connOut[c] # <<>>

\* The step l records was an error event on an established connection.
MidStreamError(l) ==
    l.pre = "OPEN" /\ (l.op = "onerror" \/ (l.op = "onclose" /\ l.err))

\* C13: a connect() whose constructor throws, an error event on an open
\* transport, and a connect() refused at the attempt ceiling each deliver an
\* error notification to every error subscriber, with three different
\* messages, and no exception leaves connect().
C13_FailuresSurfaceDistinctly ==
    [][/\ lastOp'.op \in {"connect", "timer"} => ~escaped'
       /\ \A c \in errorSubscribers' :
            /\ (lastOp'.op \in {"connect", "mount", "timer"} /\ lastOp'.pre = "threw")
                => errOut'[c] = <<FailedToCreate(kind)>>
            /\ (lastOp'.op \in {"connect", "mount", "timer"} /\ lastOp'.pre = "ceiling")
                => errOut'[c] = <<"Max reconnection attempts reached">>
            /\ MidStreamError(lastOp')
                => /\ errOut'[c] # <<>>
                   /\ errOut'[c][1] \notin
                        {FailedToCreate(kind), "Max reconnection attempts reached"}]_vars

\* The parts of C13 about construction failure and the attempt ceiling, and
\* the error event of an open WebSocket.
C13_HoldsButSseError ==
    [][/\ lastOp'.op \in {"connect", "timer"} => ~escaped'
       /\ \A c \in errorSubscribers' :
            /\ (lastOp'.op \in {"connect", "mount", "timer"} /\ lastOp'.pre = "threw")
                => errOut'[c] = <<FailedToCreate(kind)>>
            /\ (lastOp'.op \in {"connect", "mount", "timer"} /\ lastOp'.pre = "ceiling")
                => errOut'[c] = <<"Max reconnection attempts reached">>
            /\ (MidStreamError(lastOp') /\ kind = "WS")
                => errOut'[c] = <<"WebSocket connection error">>
            /\ (MidStreamError(lastOp') /\ kind = "SSE")
                => errOut'[c] = <<>>]_vars

\* The capacity of the log buffer and of each performance-history series.
Capacity == 1000

\* Buffer new is buffer old with entry e appended, the oldest entry dropped
\* when old already held Capacity entries.
AppendedEvicting(old, new, e) ==
    new = IF Len(old) < Capacity THEN Append(old, e) ELSE Append(Tail(old), e)

\* C14: a payload that is not JSON reaches no message subscriber, adds
\* exactly one entry, of level ERROR, to the store's log buffer and changes
\* nothing else of the store, leaves the transport open and the manager as it
\* was, and the envelope that arrives next is delivered.
C14_MalformedPayloadLogged ==
    [][/\ (storeOp'.op = "dispatch" /\ storeOp'.arg = Malformed) =>
            /\ msgOut' = NoOut
            /\ \E level \in {"ERROR"} :
                /\ state'.logs # <<>>
                /\ state'.logs[Len(state'.logs)].level = level
                /\ AppendedEvicting(state.logs, state'.logs,
                                    state'.logs[Len(state'.logs)])
            /\ state' = [state EXCEPT !.logs = state'.logs]
            /\ UNCHANGED mgrVars
            /\ isConnected(Cur)'
       /\ (storeOp.op = "dispatch" /\ storeOp.arg = Malformed
           /\ storeOp'.op = "dispatch" /\ storeOp'.arg # Malformed) =>
            msgOut'[TheHook] = <<storeOp'.arg>>]_vars

\* What does hold of a malformed payload: it is dropped without a trace in
\* the store, the transport stays open, the next envelope is delivered.
C14_MalformedPayloadDropped ==
    [][/\ (storeOp'.op = "dispatch" /\ storeOp'.arg = Malformed) =>
            /\ msgOut' = NoOut
            /\ UNCHANGED storeVars
            /\ UNCHANGED mgrVars
            /\ isConnected(Cur)'
       /\ (storeOp.op = "dispatch" /\ storeOp.arg = Malformed
           /\ storeOp'.op = "dispatch" /\ storeOp'.arg # Malformed) =>
            msgOut'[TheHook] = <<storeOp'.arg>>]_vars

\* The envelope the step to the primed state dispatched, when it dispatched
\* one of the given type.
Dispatched(op, type) ==
    /\ op.op = "dispatch"
    /\ op.arg \in 1..Len(WireEnvelopes)
    /\ WireEnvelopes[op.arg].type = type

\* C15: dispatching a heartbeat whose data carries only memory_usage_mb sets
\* memory_usage_mb of the stored metrics to the envelope's value and leaves
\* every other metric field at its prior value.
C15_HeartbeatMergesOnlyPresentFields ==
    [][(/\ Dispatched(storeOp', "heartbeat")
        /\ DOMAIN WireEnvelopes[storeOp'.arg].data = {"memory_usage_mb"})
        => state'.metrics =
             [state.metrics EXCEPT !.memory_usage_mb =
                 WireEnvelopes[storeOp'.arg].data.memory_usage_mb]]_vars

\* What the dispatch of a heartbeat does: every field of the metrics is
\* overwritten, by the envelope's value or, when absent, by 0 / 'unknown'.
C15_HeartbeatOverwritesAllFields ==
    [][Dispatched(storeOp', "heartbeat") =>
        LET data == WireEnvelopes[storeOp'.arg].data IN
        /\ \A k \in {"memory_usage_mb", "queue_size", "processing_delay_ms",
                     "active_clients", "uptime_seconds"} :
            state'.metrics[k] = IF k \in DOMAIN data THEN data[k] ELSE 0
        /\ \A k \in {"server_status", "current_scenario"} :
            state'.metrics[k] = IF k \in DOMAIN data THEN data[k] ELSE "unknown"]_vars

\* Snapshot new is snapshot old with exactly the keys of partial overwritten
\* by partial's values.
OverwritesExactly(old, new, partial) ==
    /\ DOMAIN new = DOMAIN old \cup DOMAIN partial
    /\ \A k \in DOMAIN partial : new[k] = partial[k]
    /\ \A k \in DOMAIN old \ DOMAIN partial : new[k] = old[k]

\* C16: updateMetrics(partial) and updateOrderbook(partial) overwrite exactly
\* the keys present in partial; the other fields of that snapshot, the other
\* snapshot, the incidents, the logs and the performance history stay as
\* they were.
C16_MergeOverwritesOnlyPresentKeys ==
    [][/\ storeOp'.op = "updateMetrics" =>
            /\ OverwritesExactly(state.metrics, state'.metrics,
                                 MetricsPartials[storeOp'.arg])
            /\ state' = [state EXCEPT !.metrics = state'.metrics]
       /\ storeOp'.op = "updateOrderbook" =>
            /\ OverwritesExactly(state.orderbook_data, state'.orderbook_data,
                                 OrderbookPartials[storeOp'.arg])
            /\ state' = [state EXCEPT !.orderbook_data = state'.orderbook_data]]_vars

\* updateMetrics with two keys, then updateOrderbook with one: the fields
\* the partials did not carry still hold their initial values.
C16_Witness ==
    /\ storeOp.op = "updateOrderbook"
    /\ storeOp.arg = 1
    /\ state.orderbook_data.sequence_id = 9
    /\ state.orderbook_data.is_stale = initialState.orderbook_data.is_stale
    /\ state.metrics.queue_size = 7
    /\ state.metrics.server_status = "degraded"
    /\ state.metrics.memory_usage_mb = generateSampleMetrics.memory_usage_mb
    /\ Len(state.logs) = Capacity

\* The five series of the performance history.
Series == {"timestamps", "memory", "queue", "processing_delay", "message_rate"}

\* No buffer of store state s is over capacity.
WithinCapacity(s) ==
    /\ Len(s.logs) <= Capacity
    /\ \A k \in Series : Len(s.performance_history[k]) <= Capacity

\* C17: the log buffer and every performance-history series never hold more
\* than 1000 entries, and a call of addLog / updatePerformanceHistory appends
\* its entry at the end, dropping exactly the oldest entry when the buffer
\* held 1000 and keeping the others in their order.
C17_BuffersCappedOldestEvicted ==
    [][/\ WithinCapacity(state) /\ WithinCapacity(state')
       /\ storeOp'.op = "addLog" =>
            /\ state'.logs # <<>>
            /\ AppendedEvicting(state.logs, state'.logs,
                                state'.logs[Len(state'.logs)])
       /\ storeOp'.op = "updatePerformanceHistory" =>
            \A k \in Series :
                LET old == state.performance_history[k]
                    new == state'.performance_history[k]
                IN  /\ new # <<>>
                    /\ AppendedEvicting(old, new, new[Len(new)])
            /\ state'.performance_history.memory[
                   Len(state'.performance_history.memory)] = storeOp'.arg]_vars

\* Both buffers were full; addLog and updatePerformanceHistory each dropped
\* the oldest entry (the filler numbered 1) and appended theirs.
C17_Witness ==
    /\ storeOp.op = "updatePerformanceHistory"
    /\ Len(state.logs) = Capacity
    /\ state.logs[1].message.nums = <<2>>
    /\ state.logs[Capacity - 1].message.nums = <<Capacity>>
    /\ state.logs[Capacity].message.text = "note"
    /\ Len(state.performance_history.memory) = Capacity
    /\ state.performance_history.memory[1] = 2
    /\ state.performance_history.memory[Capacity] = storeOp.arg

Range(f) == {f[i] : i \in DOMAIN f}

\* A step in which the staleness latch trips.
TripStep ==
    ~page.isDisconnectedDueToStaleness /\ page'.isDisconnectedDueToStaleness

\* C18: the staleness trip is edge-triggered; a trip disconnects the stream
\* once and appends exactly one incident, which carries the data age that
\* triggered it, to the incident list.
C18_TripDisconnectsAndRecordsIncident ==
    [][TripStep =>
          /\ eventSource' = Null
          /\ Len(state'.incidents) = Len(state.incidents) + 1
          /\ state.orderbook_data.data_age_ms
                 \in Range(state'.incidents[Len(state'.incidents)].details.nums)
      ]_vars

\* What holds of the trip: it closes the stream and keeps the data age in the
\* page's stalenessDisconnectInfo, the incident list is left as it is, and
\* the effect running again on stale data while the latch is tripped touches
\* neither the manager nor the incident list.
C18_TripDisconnectsOnceNoIncident ==
    [][/\ TripStep =>
            /\ eventSource' = Null
            /\ page'.stalenessDisconnectInfo.dataAge = state.orderbook_data.data_age_ms
            /\ state'.incidents = state.incidents
       /\ (page.isDisconnectedDueToStaleness /\ page'.effectDeps # page.effectDeps) =>
            /\ eventSource' = eventSource
            /\ readyState' = readyState
            /\ state'.incidents = state.incidents
      ]_vars

\* The latch has just tripped on the snapshot that is 1200 ms old.
C18_Tripped ==
    /\ pageOp.op = "trip"
    /\ pageOp.arg = 1200
    /\ page.isDisconnectedDueToStaleness
    /\ eventSource = Null

\* C19: once the staleness latch has tripped it stays tripped through
\* envelopes, timer firings, status polls and Stop; the only step that clears
\* it is a successful Start of handlePlayToggle.
C19_LatchClearedOnlyByStart ==
    [][(page.isDisconnectedDueToStaleness /\ ~page'.isDisconnectedDueToStaleness)
          => (page.toggle = "start:fetch" /\ pageOp'.op = "start:ok")]_vars

\* The latch is tripped, fresh data has arrived since and the staleness
\* effect has run on it.
C19_TrippedThroughFreshData ==
    /\ page.isDisconnectedDueToStaleness
    /\ ~page.isResetting
    /\ ~state.orderbook_data.is_stale
    /\ state.orderbook_data.sequence_id > 0
    /\ page.effectDeps = StalenessDeps(CurWorld)

\* The latch is tripped and a Stop has just succeeded.
C19_TrippedThroughStop ==
    /\ page.isDisconnectedDueToStaleness
    /\ pageOp.op = "stop:ok"

\* C20: while the staleness latch is tripped and no restart has been
\* requested since the trip, the manager has no connecting or open transport.
C20_NoTransportWhileTripped ==
    (page.isDisconnectedDueToStaleness /\ ~restartRequested)
        => (eventSource = Null /\ Live = {})

\* What holds: the trip leaves no reconnect timer of the manager pending and
\* no transport connecting or open.
C20_TripCancelsReconnectTimer ==
    pageOp.op = "trip" =>
        /\ reconnectTimeout = Null
        /\ \A h \in TimerIds : timers[h] = 0
        /\ eventSource = Null
        /\ Live = {}

\* The arrivals of the last rateWindow ms.
ArrivalsInWindow == {i \in DOMAIN arrivals : now - arrivals[i] < rateWindow}

\* C21: getMessageRate() at time t is the number of arrivals a with
\* t - a < 5000 divided by 5 (here in tenths: twice that number): 0 without
\* arrivals, 2.0 for ten arrivals in the window, and older arrivals do not
\* count.
C21_RateIsCountInWindowOverFive ==
    /\ getMessageRate(CurStore) * rateWindowSeconds = Cardinality(ArrivalsInWindow) * 10
    /\ arrivals = <<>> => getMessageRate(CurStore) = 0
    /\ Cardinality(ArrivalsInWindow) = 10 => getMessageRate(CurStore) = 20

\* Ten arrivals are in the window, the last has just arrived, older ones are
\* not; the rate is 2.0.
C21_Witness ==
    /\ storeOp.op = "dispatch"
    /\ Cardinality(ArrivalsInWindow) = 10
    /\ Len(arrivals) > 10
    /\ getMessageRate(CurStore) = 20

\* An arrival older than the window is still held by the store (it is
\* dropped after 10 s only) and does not count.
C21_OldArrivalHeld ==
    /\ Len(messageTimestamps) > Cardinality(ArrivalsInWindow)
    /\ storeOp.op = "dispatch"

\* C22: with every transport failing before it opens, each of the five
\* scheduled reconnection attempts constructs a transport when its timer
\* fires: no reconnect timer's connect() is refused at the ceiling.
C22_EveryScheduledAttemptConstructs ==
    [][lastOp'.op = "timer" => lastOp'.pre # "ceiling"]_vars

\* What holds: the timers of attempts 0..3 construct a transport (unless the
\* constructor throws); the timer scheduled by the fifth failure finds
\* reconnectAttempts at the ceiling, and its connect() only reports the error.
C22_FifthTimerIsRefused ==
    [][lastOp'.op = "timer" =>
          /\ reconnectAttempts < maxReconnectAttempts
                => lastOp'.pre \in {"created", "threw", "connecting", "open"}
          /\ reconnectAttempts = maxReconnectAttempts
                => /\ lastOp'.pre \in {"ceiling", "connecting", "open"}
                   /\ lastOp'.pre = "ceiling" =>
                        (eventSource' = eventSource /\ readyState' = readyState)
      ]_vars

\* The fifth reconnect timer has fired and was refused.
C22_Refused ==
    /\ lastOp.op = "timer"
    /\ lastOp.pre = "ceiling"
    /\ reconnectAttempts = maxReconnectAttempts
    /\ eventSource = Null

\* A step in which the manager's handler saw its transport close without the
\* caller having asked for it: an SSE error event or a WebSocket close event.
UnrequestedClose == lastOp'.op \in {"onerror", "onclose"}

\* The step scheduled a reconnection attempt.
ScheduledReconnect ==
    /\ reconnectTimeout' \in TimerIds
    /\ timers'[reconnectTimeout'] = BackoffDelay(reconnectAttempts)
    /\ reconnectAttempts' = reconnectAttempts + 1

\* C23: every closure the caller did not request (any SSE error event, any
\* WebSocket close event whatever its code) schedules a reconnection attempt
\* while reconnectAttempts is below the ceiling.
C23_EveryUnrequestedCloseReconnects ==
    [][(UnrequestedClose /\ reconnectAttempts < maxReconnectAttempts)
          => ScheduledReconnect]_vars

\* What holds: below the ceiling every SSE error event and every WebSocket
\* close with a code other than 1000 and 1001 schedules a reconnection; a
\* WebSocket close with code 1000 or 1001 schedules none and resets the
\* attempt counter.
C23_ReconnectsExceptNormalClosure ==
    [][(UnrequestedClose /\ reconnectAttempts < maxReconnectAttempts) =>
          IF lastOp'.op = "onclose" /\ lastOp'.arg \in {NormalClosure, GoingAway}
          THEN reconnectTimeout' = Null /\ reconnectAttempts' = 0
          ELSE ScheduledReconnect]_vars

\* The server has closed the WebSocket with code 1000 and no reconnection is
\* scheduled.
C23_NormalClosureReached ==
    /\ lastOp.op = "onclose"
    /\ lastOp.arg = NormalClosure
    /\ reconnectTimeout = Null
    /\ eventSource = Null

\* A step in which the transport constructor threw inside connect().
ConstructionFailed ==
    lastOp'.op \in {"connect", "timer", "mount"} /\ lastOp'.pre = "threw"

\* A step in which an open transport failed: an SSE error event, or a
\* WebSocket error event with the close that follows it.
MidStreamFailed ==
    /\ lastOp'.pre = "OPEN"
    /\ lastOp'.op = "onerror" \/ (lastOp'.op = "onclose" /\ lastOp'.err)

\* The step told every subscriber: a connection change or an error, which
\* useSSE / useWebSocket turn into a log entry.
SubscribersTold ==
    \A c \in connectionSubscribers : connOut'[c] # <<>> \/ errOut'[c] # <<>>

\* C24: a construction failure and a mid-stream transport error both enter
\* the backoff state machine: each is reported (and logged) and, while
\* attempts remain, schedules a reconnect timer with the current backoff
\* delay.
C24_FailuresEnterBackoff ==
    [][((ConstructionFailed \/ MidStreamFailed)
        /\ reconnectAttempts < maxReconnectAttempts)
          => (SubscribersTold /\ ScheduledReconnect)]_vars

\* What holds: a mid-stream error is reported and schedules the timer; a
\* construction failure is reported through notifyError only: no timer is
\* pending afterwards and the attempt counter is unchanged.
C24_ConstructionFailureOnlyNotifies ==
    [][/\ (MidStreamFailed /\ reconnectAttempts < maxReconnectAttempts)
            => (SubscribersTold /\ ScheduledReconnect)
       /\ ConstructionFailed =>
            /\ \A c \in errorSubscribers' : errOut'[c] = <<FailedToCreate(kind)>>
            /\ reconnectTimeout' = Null
            /\ \A h \in TimerIds : timers'[h] = 0
            /\ reconnectAttempts' = reconnectAttempts
            /\ eventSource' = Null
            /\ ~isConnecting'
      ]_vars

\* The constructor has thrown in connect() with attempts remaining, and
\* nothing is scheduled.
C24_ConstructionFailureReached ==
    /\ lastOp.op = "connect"
    /\ lastOp.pre = "threw"
    /\ reconnectAttempts < maxReconnectAttempts
    /\ reconnectTimeout = Null
    /\ errorSubscribers # {}

\* A step in which the page's delayed start timeout runs (its callback calls
\* connect() and sets the inner timeout).
StartTimeoutFires ==
    /\ page.timeouts # <<>>
    /\ Head(page.timeouts) = "connect"
    /\ page'.timeouts = Append(Tail(page.timeouts), "unreset")

\* C25: no timer-scheduled connect() takes effect after an explicit
\* disconnect() later than the timer's scheduling.  In particular, in the
\* step right after a disconnect() of the page (a Stop, a staleness trip, the
\* disconnect of a Start, none of which schedules a timer itself) no start
\* timeout constructs a transport.
C25_NoConnectByStaleTimer ==
    [][(pageOp.op \in PageOps /\ StartTimeoutFires) => Live' = {}]_vars

\* What holds: the manager's own reconnect timer never outlives a
\* disconnect() of the page; no such timer is pending after it.
C25_DisconnectCancelsReconnectTimer ==
    pageOp.op \in PageOps =>
        /\ reconnectTimeout = Null
        /\ \A h \in TimerIds : timers[h] = 0

\* A Stop has just disconnected the stream while a start timeout is pending.
C25_StopWithStartTimeoutPending ==
    /\ pageOp.op = "stop:ok"
    /\ page.timeouts # <<>>
    /\ Head(page.timeouts) = "connect"
    /\ Live = {}

\* C26: at most one reconnect timer is pending, and it is the one the
\* manager holds; none is pending after a disconnect() or after a connect()
\* that constructed a transport; a pending reconnect timer never coexists
\* with a connecting or open transport.
C26_AtMostOneReconnectTimer ==
    /\ Cardinality(PendingTimers) <= 1
    /\ PendingTimers # {} =>
          /\ PendingTimers = {reconnectTimeout}
          /\ eventSource = Null
          /\ Live = {}
    /\ lastOp.op = "disconnect" => PendingTimers = {}
    /\ (lastOp.op \in {"connect", "timer", "mount"} /\ lastOp.pre = "created")
          => PendingTimers = {}

\* A reconnect timer is only ever scheduled when none is pending.
C26_ScheduledOnlyWhenNonePending ==
    [][(PendingTimers' \ PendingTimers # {}) =>
          PendingTimers = {}]_vars

\* A second reconnect timer is pending: the first one fired, its transport
\* failed too.
C26_Witness ==
    /\ lastOp.op \in {"onerror", "onclose"}
    /\ reconnectAttempts >= 2
    /\ Cardinality(PendingTimers) = 1

\* The stored snapshot is stale beyond the threshold while the latch is not
\* tripped and no reset is in progress.
StaleBeyondThreshold ==
    /\ state.orderbook_data.is_stale
    /\ state.orderbook_data.data_age_ms > stalenessThreshold
    /\ ~page.isDisconnectedDueToStaleness
    /\ ~page.isResetting

\* C27: the staleness detector trips exactly when the stored snapshot has
\* is_stale and data_age_ms > 300 while the latch is not tripped and no
\* reset is in progress: a trip happens only then, the effect is due whenever
\* that holds and trips when it runs; the trip is the manager's disconnect()
\* and nothing else (the store is left as it was).
C27_TripsExactlyWhenStaleBeyondThreshold ==
    [][/\ TripStep => StaleBeyondThreshold
       /\ TripStep =>
             /\ eventSource' = Null
             /\ PendingTimers' = {}
             /\ state' = state
       /\ StaleBeyondThreshold => ~EffectsFlushed
       /\ (StaleBeyondThreshold /\ page'.effectDeps # page.effectDeps)
             => TripStep]_vars

\* The effect ran on a snapshot stale exactly at the threshold, and on one
\* beyond the threshold that is not flagged stale, and did not trip.
C27_EffectRanAtThreshold ==
    /\ state.orderbook_data.is_stale
    /\ state.orderbook_data.data_age_ms = stalenessThreshold
    /\ page.effectDeps = StalenessDeps(CurWorld)
    /\ ~page.isDisconnectedDueToStaleness
    /\ ~page.isResetting
    /\ eventSource # Null

C27_EffectRanOnUnflagged ==
    /\ ~state.orderbook_data.is_stale
    /\ state.orderbook_data.data_age_ms > stalenessThreshold
    /\ page.effectDeps = StalenessDeps(CurWorld)
    /\ ~page.isDisconnectedDueToStaleness
    /\ ~page.isResetting
    /\ eventSource # Null

\* The snapshot an orderbook_update envelope stands for: its fields, with
\* an empty list, 0 or FALSE for a field it does not carry and t for its
\* timestamp when it carries none.
EnvelopeSnapshot(data, t) ==
    LET Field(k, d) == IF k \in DOMAIN data THEN data[k] ELSE d IN
    [bids |-> Field("bids", <<>>),
     asks |-> Field("asks", <<>>),
     mid_price |-> Field("mid_price", 0),
     spread |-> Field("spread", 0),
     sequence_id |-> Field("sequence_id", 0),
     timestamp |-> Field("timestamp", t),
     data_age_ms |-> Field("data_age_ms", 0),
     is_stale |-> Field("is_stale", FALSE),
     processing_delay_ms |-> Field("processing_delay_ms", 0)]

\* C28 (as stated): dispatching an orderbook_update replaces the stored
\* snapshot wholesale; every field equals the envelope's value or, when the
\* envelope does not carry it, its default: empty list, 0 or false.
C28_SnapshotReplacedWithDefaults ==
    [][Dispatched(storeOp', "orderbook_update") =>
          state'.orderbook_data =
              EnvelopeSnapshot(WireEnvelopes[storeOp'.arg].data, 0)]_vars

\* C28 (amended): dispatching an orderbook_update replaces the stored
\* snapshot wholesale; every field equals the envelope's value or, when the
\* envelope does not carry it, its default: empty list, 0 or false, and for
\* timestamp the time of the dispatch.  Nothing of the previous snapshot
\* survives.
C28_SnapshotReplacedTimestampNow ==
    [][Dispatched(storeOp', "orderbook_update") =>
          state'.orderbook_data =
              EnvelopeSnapshot(WireEnvelopes[storeOp'.arg].data, now)]_vars

\* An envelope that carries three fields only was dispatched onto the full
\* snapshot of sequence_id 4: the book is empty, the timestamp is the clock's.
C28_PartialOverFull ==
    /\ Dispatched(storeOp, "orderbook_update")
    /\ DOMAIN WireEnvelopes[storeOp.arg].data =
           {"sequence_id", "data_age_ms", "is_stale"}
    /\ storeOp.pre = 4
    /\ state.orderbook_data.bids = <<>>
    /\ state.orderbook_data.mid_price = 0
    /\ state.orderbook_data.timestamp = now

\* C29: the store rejects no orderbook_update for its sequence_id: whatever
\* the stored sequence_id, after the dispatch every field the envelope
\* carries is stored with the envelope's value (sequence_id 4 after
\* sequence_id 5 included); a dispatch of any other envelope leaves the
\* stored snapshot as it is, so it stays that of the last orderbook_update.
C29_NoSequenceRejection ==
    [][/\ Dispatched(storeOp', "orderbook_update") =>
            LET data == WireEnvelopes[storeOp'.arg].data IN
            \A k \in DOMAIN data : state'.orderbook_data[k] = data[k]
       /\ (storeOp'.op = "dispatch" /\ ~Dispatched(storeOp', "orderbook_update"))
            => state'.orderbook_data = state.orderbook_data]_vars

\* sequence_id 4 was dispatched onto sequence_id 5 and is stored.
C29_FourAfterFive ==
    /\ Dispatched(storeOp, "orderbook_update")
    /\ storeOp.pre = 5
    /\ WireEnvelopes[storeOp.arg].data.sequence_id = 4
    /\ state.orderbook_data.sequence_id = 4
    /\ state.orderbook_data.data_age_ms = 1200

\* C30: across the orderbook_update envelopes dispatched into the store the
\* stored sequence_id never decreases.
C30_SequenceIdNeverDecreases ==
    [][storeOp'.op = "dispatch" =>
          state'.orderbook_data.sequence_id >= state.orderbook_data.sequence_id]_vars

\* What holds instead: the stored sequence_id is that of the envelope, lower
\* than the stored one or not.
C30_SequenceIdIsTheEnvelopes ==
    [][Dispatched(storeOp', "orderbook_update") =>
          /\ state'.orderbook_data.sequence_id =
                 WireEnvelopes[storeOp'.arg].data.sequence_id
          /\ storeOp'.pre = state.orderbook_data.sequence_id]_vars

\* The stored sequence_id went down.
C30_SequenceIdDecreased ==
    /\ Dispatched(storeOp, "orderbook_update")
    /\ state.orderbook_data.sequence_id < storeOp.pre

\* The sample a heartbeat envelope stands for: its memory, queue and delay
\* (0 for a value it does not carry), no message rate, stamped t.
HeartbeatSample(data, t) ==
    LET Field(k) == IF k \in DOMAIN data THEN data[k] ELSE 0 IN
    [timestamps |-> t,
     memory |-> Field("memory_usage_mb"),
     queue |-> Field("queue_size"),
     processing_delay |-> Field("processing_delay_ms"),
     message_rate |-> 0]

\* C31: dispatching one heartbeat appends exactly one sample to the
\* performance history: each series grows by one entry, or stays at 1000
\* with its oldest entry evicted, and the new entry carries the envelope's
\* memory, queue and delay; the logs and the incidents are left as they are.
C31_HeartbeatAppendsOneSample ==
    [][Dispatched(storeOp', "heartbeat") =>
          LET sample == HeartbeatSample(WireEnvelopes[storeOp'.arg].data, now) IN
          /\ \A k \in Series :
                AppendedEvicting(state.performance_history[k],
                                 state'.performance_history[k], sample[k])
          /\ state'.logs = state.logs
          /\ state'.incidents = state.incidents
          /\ state'.orderbook_data = state.orderbook_data]_vars

\* The full heartbeat was dispatched onto a full history: its sample is the
\* last of 1000, the oldest filler is gone.
C31_HeartbeatAtCapacity ==
    /\ Dispatched(storeOp, "heartbeat")
    /\ "queue_size" \in DOMAIN WireEnvelopes[storeOp.arg].data
    /\ Len(state.performance_history.memory) = Capacity
    /\ state.performance_history.memory[1] = 2
    /\ state.performance_history.memory[Capacity] =
           WireEnvelopes[storeOp.arg].data.memory_usage_mb
    /\ state.performance_history.queue[Capacity] =
           WireEnvelopes[storeOp.arg].data.queue_size
    /\ state.performance_history.processing_delay[Capacity] =
           WireEnvelopes[storeOp.arg].data.processing_delay_ms

\* The samples of one call each: those callers pass directly and those of
\* the heartbeat envelopes; no two of them have the same memory value.
CallSamples ==
    HistorySamples \cup
    {LET s == HeartbeatSample(WireEnvelopes[i].data, 0)
     IN  <<s.memory, s.queue, s.processing_delay, s.message_rate>> :
        i \in {j \in 1..Len(WireEnvelopes) : WireEnvelopes[j].type = "heartbeat"}}

\* Index i of the five series of history h holds the values of one sample:
\* a filler the store started with, or the sample of one call.
OneSampleAt(h, i) ==
    IF h.timestamps[i] <= 0
    THEN /\ h.memory[i] - h.timestamps[i] \in InitialFills
         /\ h.queue[i] = 2 * h.memory[i]
         /\ h.processing_delay[i] = 3 * h.memory[i]
         /\ h.message_rate[i] = 0
    ELSE <<h.memory[i], h.queue[i], h.processing_delay[i], h.message_rate[i]>>
             \in CallSamples

\* C32: the five series of the performance history have equal length and
\* index i of each holds the value of the same updatePerformanceHistory
\* call, after evictions at capacity too.
C32_SeriesInLockStep ==
    LET h == state.performance_history IN
    /\ \A k \in Series : Len(h[k]) = Len(h.timestamps)
    /\ \A i \in 1..Len(h.timestamps) : OneSampleAt(h, i)

\* Two samples were appended to a full history, both evicting: the last two
\* indices hold a direct call's sample and a heartbeat's.
C32_TwoEvictions ==
    LET h == state.performance_history IN
    /\ Len(h.memory) = Capacity
    /\ h.memory[1] = 3
    /\ h.timestamps[Capacity - 1] > 0
    /\ h.message_rate[Capacity - 1] = 2
    /\ Dispatched(storeOp, "heartbeat")

\* C33: dispatching one incident_alert appends exactly one Incident, of the
\* envelope's subtype, to the incident list and exactly one log entry, of
\* level CRITICAL for the subtype stale_data and INCIDENT for any other; the
\* orderbook snapshot, the metrics and the performance history stay as they
\* were.
C33_IncidentAlertAppendsIncidentAndLog ==
    [][Dispatched(storeOp', "incident_alert") =>
          LET data == WireEnvelopes[storeOp'.arg].data
              n == Len(state.incidents)
              entry == state'.logs[Len(state'.logs)]
          IN
          /\ Len(state'.incidents) = n + 1
          /\ SubSeq(state'.incidents, 1, n) = state.incidents
          /\ state'.incidents[n + 1].type = data.type
          /\ state'.logs # <<>>
          /\ AppendedEvicting(state.logs, state'.logs, entry)
          /\ entry.level = IF data.type = "stale_data" THEN "CRITICAL"
                           ELSE "INCIDENT"
          /\ state'.orderbook_data = state.orderbook_data
          /\ state'.metrics = state.metrics
          /\ state'.performance_history = state.performance_history]_vars

\* Two incident alerts were dispatched, stale_data twice or stale_data and
\* then another subtype: two incidents, the log ends with their two entries.
C33_TwoAlerts ==
    /\ Dispatched(storeOp, "incident_alert")
    /\ Len(state.incidents) = 2
    /\ state.incidents[1].type = "stale_data"
    /\ state.logs[Len(state.logs) - 1].level = "CRITICAL"
    /\ state.logs[Len(state.logs)].level \in {"CRITICAL", "INCIDENT"}
    /\ state.incidents[2].type = WireEnvelopes[storeOp.arg].data.type

C34_TripAppendsNothing ==
    [][TripStep => state'.incidents = state.incidents]_vars

\* The step left everything of the store but the log buffer as it was.
OnlyLogsChanged ==
    /\ state' = [state EXCEPT !.logs = state'.logs]
    /\ messageCount' = messageCount
    /\ messageTimestamps' = messageTimestamps

\* The step appended one entry of level INFO to the log buffer.
OneInfoEntryAppended ==
    /\ state'.logs # <<>>
    /\ AppendedEvicting(state.logs, state'.logs, state'.logs[Len(state'.logs)])
    /\ state'.logs[Len(state'.logs)].level = "INFO"

\* C35: dispatching a connection envelope appends one INFO log entry and
\* changes nothing else in the store; dispatching a keepalive changes
\* nothing in the store: orderbook, metrics, incidents, logs, performance
\* history, message count and rate timestamps.
C35_ConnectionLogsKeepaliveIsNoOp ==
    [][/\ Dispatched(storeOp', "connection") =>
             /\ OneInfoEntryAppended
             /\ OnlyLogsChanged
       /\ Dispatched(storeOp', "keepalive") =>
             /\ state' = state
             /\ messageCount' = messageCount
             /\ messageTimestamps' = messageTimestamps]_vars

\* A connection envelope and then a keepalive were dispatched: the log ends
\* with the greeting's entry, nothing was counted.
C35_GreetingThenKeepalive ==
    /\ Dispatched(storeOp, "keepalive")
    /\ steps = 2
    /\ state.logs # <<>>
    /\ state.logs[Len(state.logs)].level = "INFO"
    /\ state.logs[Len(state.logs)].message.strs = <<"welcome">>
    /\ messageCount = 0

\* The types handleMessage has a case for.
KnownTypes ==
    {"connection", "heartbeat", "orderbook_update", "incident_alert", "keepalive"}

\* The step dispatched an envelope of a type handleMessage has no case for.
DispatchedUnknown(op) ==
    /\ op.op = "dispatch"
    /\ op.arg \in 1..Len(WireEnvelopes)
    /\ WireEnvelopes[op.arg].type \notin KnownTypes

\* C36: dispatching an envelope of an unrecognized type appends exactly one
\* INFO entry to the store's log buffer and leaves the orderbook snapshot,
\* the metrics, the incidents and the performance history unchanged.
C36_UnknownTypeLoggedAtInfo ==
    [][DispatchedUnknown(storeOp') =>
          /\ OneInfoEntryAppended
          /\ OnlyLogsChanged]_vars

\* What the dispatch of an unrecognized type does: nothing, the log buffer
\* included.
C36_UnknownTypeIgnored ==
    [][DispatchedUnknown(storeOp') =>
          /\ state' = state
          /\ messageCount' = messageCount
          /\ messageTimestamps' = messageTimestamps
          /\ msgOut'[TheHook] = <<storeOp'.arg>>]_vars

\* An envelope of an unrecognized type reached the hook.
C36_UnknownTypeDispatched ==
    /\ DispatchedUnknown(storeOp)
    /\ msgOut[TheHook] = <<storeOp.arg>>

\* C37: for a consumer of the SSE manager the last connection notification
\* it received equals isConnected() after every manager step: a step that
\* notifies it ends with the value isConnected() then has, a step that does
\* not notify it leaves isConnected() as it was (it is false before the
\* first connect()); and connected=true is notified once, in a step that
\* started not connected, so never twice without a false in between.
C37_LastNotificationIsConnected ==
    [][kind = "SSE" =>
          /\ \A c \in connectionSubscribers \cap connectionSubscribers' :
                /\ connOut'[c] # <<>> =>
                      connOut'[c][Len(connOut'[c])] = isConnected(Cur)'
                /\ connOut'[c] = <<>> =>
                      isConnected(Cur)' = isConnected(Cur)
          /\ \A c \in connectionSubscribers' :
                TRUE \in Range(connOut'[c]) =>
                    /\ connOut'[c] = <<TRUE>>
                    /\ ~isConnected(Cur) \/ c \notin connectionSubscribers]_vars

\* The stream opened again after a failure and a reconnect: a subscriber
\* has been told true, false and now true.
C37_ReopenedAfterFailure ==
    /\ kind = "SSE"
    /\ lastOp.op = "onopen"
    /\ streakAtOpen >= 1
    /\ isConnected(Cur)
    /\ \E c \in connectionSubscribers : connOut[c] = <<TRUE>>

\* The dashboard's hook subscribes before its first connect(): the flag it
\* keeps from the notifications is isConnected() in every state.
C37_HookMirrorsManager == page.isConnected = isConnected(Cur)

\* Consumer c was called in the step to the primed state.
Called(c) == connOut'[c] # <<>> \/ msgOut'[c] # <<>> \/ errOut'[c] # <<>>

\* C38: once a consumer has unsubscribed none of its three callbacks is
\* called in any later step (no consumer that is not registered is ever
\* called), while the consumers that stay registered are all called alike
\* and each gets every envelope that reaches the manager's transport; the
\* unsubscribe step itself calls nobody and leaves the transport, the timer
\* and the retry state as they were.
C38_UnsubscribedConsumerIsNeverCalled ==
    [][/\ \A c \in Consumers :
             Called(c) => /\ c \in connectionSubscribers'
                          /\ c \in messageSubscribers'
                          /\ c \in errorSubscribers'
       /\ \A c, d \in connectionSubscribers \cap connectionSubscribers' :
             /\ connOut'[c] = connOut'[d]
             /\ msgOut'[c] = msgOut'[d]
             /\ errOut'[c] = errOut'[d]
       /\ (lastOp'.op = "onmessage" /\ ~JSONparse(lastOp'.arg).throws) =>
             \A c \in messageSubscribers : msgOut'[c] = <<lastOp'.arg>>
       /\ lastOp'.op = "unsubscribe" =>
             /\ \A c \in Consumers : ~Called(c)
             /\ UNCHANGED <<eventSource, readyState, handlers, timers,
                            reconnectTimeout, reconnectAttempts, isConnecting>>]_vars

\* A consumer has just unsubscribed from an open stream that another one is
\* still subscribed to.
C38_UnsubscribedFromOpenStream ==
    /\ lastOp.op = "unsubscribe"
    /\ isConnected(Cur)
    /\ connectionSubscribers # {}
    /\ connectionSubscribers # Consumers

\* An envelope arrived while one consumer was registered and the other was
\* not: the registered one got it.
C38_EnvelopeToTheOneLeft ==
    /\ lastOp.op = "onmessage"
    /\ \E c \in messageSubscribers : msgOut[c] # <<>>
    /\ messageSubscribers # Consumers

\* C39: whatever the outcome of a Start request (the response is ok, it is
\* not ok, or the fetch throws), isResetting returns to false and
\* isPlayButtonLoading returns to false: the staleness detection is never
\* left disabled forever.
C39_ResettingAndLoadingReturnToFalse ==
    /\ page.isResetting ~> ~page.isResetting
    /\ (page.isPlayButtonLoading /\ page.toggle # "stop:fetch")
           ~> ~page.isPlayButtonLoading

\* A Start request has run to its end: its response was handled, no timeout
\* of it is pending, and the two flags are false again.
C39_StartRanToItsEnd ==
    /\ restartRequested
    /\ page.toggle = "idle"
    /\ page.timeouts = <<>>
    /\ ~page.isResetting
    /\ ~page.isPlayButtonLoading

\* The stored snapshot is critically stale.
CriticallyStale ==
    /\ state.orderbook_data.is_stale
    /\ state.orderbook_data.data_age_ms > stalenessThreshold

\* The staleness effect last ran while isResetting was true.
EffectLastRanInReset == page.effectDeps[4]

\* C40: while isResetting is true the staleness detector never trips and
\* never calls disconnect(), whatever snapshots arrive: a run of the effect
\* then leaves the manager and the store as they are.  When isResetting
\* returns to false with the stored snapshot critically stale and the latch
\* not tripped, the effect is due, and its run, the next step, trips.
C40_NoTripInResetTripAtItsEnd ==
    [][/\ page.isResetting => ~TripStep
       /\ (page.isResetting /\ ~EffectsFlushed)
             => (mgrVars' = mgrVars /\ state' = state)
       /\ (page.isResetting /\ ~page'.isResetting /\ CriticallyStale'
              /\ ~page'.isDisconnectedDueToStaleness)
             => (~EffectsFlushed' /\ EffectLastRanInReset')
       /\ (EffectLastRanInReset /\ ~page.isResetting /\ CriticallyStale
              /\ ~page.isDisconnectedDueToStaleness)
             => TripStep]_vars

\* isResetting has returned to false on a snapshot that arrived critically
\* stale during the reset: the effect skipped it then and is due now.
C40_ResetEndedOnStaleSnapshot ==
    /\ EffectLastRanInReset
    /\ ~page.isResetting
    /\ CriticallyStale
    /\ ~page.isDisconnectedDueToStaleness
    /\ eventSource # Null

\* The effect ran on a critically stale snapshot during the reset and left
\* the stream as it was.
C40_SkippedDuringReset ==
    /\ page.isResetting
    /\ EffectsFlushed
    /\ CriticallyStale
    /\ ~page.isDisconnectedDueToStaleness
    /\ eventSource # Null

====
